---- MODULE Spec2Model ----
(***************************************************************************)
(* Dynamic Pathfinding Agent: the search engine of modules/algorithms.py   *)
(* (get_neighbors, reconstruct_path, greedy_bfs, astar, run_algorithm)     *)
(* with the heuristics of modules/heuristics.py, over the cell grid of     *)
(* modules/grid.py.                                                        *)
(*                                                                         *)
(* A search call is a state machine: run_algorithm dispatches and runs the *)
(* callee's prologue, then every step is one iteration of the callee's     *)
(* `while open_list` loop, until the callee returns (Spec).                *)
(*                                                                         *)
(* The GridManager of modules/grid.py is a second state machine over the   *)
(* same grid: one action per method call, with try_spawn_dynamic_obstacle  *)
(* stepping through its loop of picks (GridSpec, and EditSpec where the    *)
(* edit methods are also given coordinates outside the grid).              *)
(***************************************************************************)
EXTENDS Integers, Sequences, FiniteSets, TLC

(***************************************************************************)
(* Bounds of the model.                                                    *)
(***************************************************************************)
MaxRows == 3
MaxCols == 4
\* rows * cols at most
MaxCells == 12
MaxObstacles == 2

\* Grids of the GridManager machine, and the paths given to
\* try_spawn_dynamic_obstacle.
GridMaxRows == 2
GridMaxCols == 3
GridMaxCells == 4
MaxPathLen == 2

\* Grids of the controller machine.
AppMaxRows == 2
AppMaxCols == 3
AppMaxCells == 6

(***************************************************************************)
(* modules/constants.py                                                    *)
(***************************************************************************)
EMPTY == 0
OBSTACLE == 1
START == 2
GOAL == 3

ALGO_ASTAR == "A*"
ALGO_GBFS == "Greedy BFS"

\* A name the dropdown does not offer; run_algorithm accepts any string.
ALGO_UNKNOWN == "Dijkstra"

AlgoNames == {ALGO_ASTAR, ALGO_GBFS, ALGO_UNKNOWN}

\* Python's None.  A coordinate is a pair and a path is never empty, so the
\* empty tuple is distinct from both.
None == <<>>

VARIABLES
    grid,               \* GridManager.cells, the search's grid: grid[r][c]
    rows, cols,         \* GridManager.rows and .cols, the search's dimensions
    start, goal,        \* GridManager.start and .goal: (row, col), 0-based
    op,                 \* the GridManager call in progress or last returned
    pre,                \* the GridManager's fields when that call began
    heuristic_fn,       \* the heuristic given to run_algorithm (None before)
    algo_name,          \* the name given to run_algorithm (None before the call)
    fn,                 \* the function run_algorithm dispatched to
    pc,                 \* "idle", "loop" (at `while open_list`), "done"
    open_list,          \* the heap, as the sorted sequence of its entries
    came_from,          \* dict node -> parent (None for start)
    g_score,            \* dict node -> cost (astar only)
    closed_set,         \* set of expanded nodes (astar only)
    visited_order,      \* list of nodes in expansion order
    frontier_snapshots, \* list of frozensets
    path,               \* the returned path, None when there is none
    raised,             \* TRUE when the call ended in a Python exception
    is_running,         \* PathfindingApp.is_running
    current_path,       \* PathfindingApp.current_path
    agent_pos,          \* PathfindingApp.agent_pos, None when there is no agent
    agent_path_idx,     \* PathfindingApp.agent_path_idx
    _dyn_job,           \* PathfindingApp._dyn_job: "none", "live", "dead"
    _anim_job,          \* Visualizer._anim_job: "none", "live", "dead"
    _anim_step,         \* Visualizer._anim_step
    timers              \* Tk's pending root.after jobs, counted per callback

vars == <<grid, rows, cols, start, goal, op, pre, heuristic_fn, algo_name, fn, pc,
          open_list, came_from, g_score, closed_set, visited_order,
          frontier_snapshots, path, raised, is_running, current_path,
          agent_pos, agent_path_idx, _dyn_job, _anim_job, _anim_step, timers>>

\* The controller's fields, which neither a search call nor a GridManager
\* method touches.
app == <<is_running, current_path, agent_pos, agent_path_idx, _dyn_job,
         _anim_job, _anim_step, timers>>

inputs == <<grid, rows, cols, start, goal, op, pre, heuristic_fn, app>>

\* PathfindingApp.__init__: no run, no agent, no timer.
NoRun ==
    /\ is_running = FALSE
    /\ current_path = <<>>
    /\ agent_pos = None
    /\ agent_path_idx = 0
    /\ _dyn_job = "none"
    /\ _anim_job = "none"
    /\ _anim_step = 0
    /\ timers = [anim |-> 0, dyn |-> 0]

----------------------------------------------------------------------------
(***************************************************************************)
(* Numbers.  A priority is an int (Manhattan) or a float g + sqrt(n)       *)
(* (Euclidean).  A number a + sqrt(n) is kept exactly as the pair <<a, n>>,*)
(* with n = 0 whenever the root is an integer, so that equal numbers are   *)
(* equal pairs.  On grids of this size distinct values a + sqrt(n) differ  *)
(* by far more than a float's rounding error, so the float comparisons of  *)
(* the code order them as the exact comparison does.                       *)
(***************************************************************************)
Abs(x) == IF x < 0 THEN -x ELSE x

\* The integer root of n when n is a perfect square, else -1.
IntRoot(n) ==
    LET s == {k \in 0..n : k * k = n}
    IN  IF s = {} THEN -1 ELSE CHOOSE k \in s : TRUE

\* math.sqrt(n)
Sqrt(n) == IF IntRoot(n) >= 0 THEN <<IntRoot(n), 0>> ELSE <<0, n>>

\* g + x for an int g
NumAdd(g, x) == <<g + x[1], x[2]>>

\* x < y, i.e. x[1] + sqrt(x[2]) < y[1] + sqrt(y[2]), by squaring
NumLess(x, y) ==
    LET d == y[1] - x[1]
        t == x[2] - y[2] - d * d
        u == y[2] - x[2] - d * d
    IN  IF d >= 0
        THEN t < 0 \/ t * t < 4 * d * d * y[2]
        ELSE u > 0 /\ 4 * d * d * x[2] < u * u

(***************************************************************************)
(* modules/heuristics.py                                                   *)
(***************************************************************************)
\* Mutant: three times the distance, an estimate that is not consistent.
manhattan_distance_tripled(a, b) ==
    3 * (Abs(a[1] - b[1]) + Abs(a[2] - b[2]))

\* Mutant: the deltas are squared (the Euclidean sum without its root).
manhattan_distance_squared(a, b) ==
    (a[1] - b[1]) * (a[1] - b[1]) + (a[2] - b[2]) * (a[2] - b[2])

manhattan_distance(a, b) == Abs(a[1] - b[1]) + Abs(a[2] - b[2])

euclidean_distance(a, b) ==
    Sqrt((a[1] - b[1]) * (a[1] - b[1]) + (a[2] - b[2]) * (a[2] - b[2]))

HeuristicFns == {"manhattan_distance", "euclidean_distance"}

\* heuristic_fn(a, b) for the function reference h
Heuristic(h, a, b) ==
    IF h = "manhattan_distance"
    THEN <<manhattan_distance(a, b), 0>>
    ELSE euclidean_distance(a, b)

----------------------------------------------------------------------------
(***************************************************************************)
(* The grid: a list of rows lists of cols cell states, indexed from 0.     *)
(***************************************************************************)
Coords(r, c) == (0..(r - 1)) \X (0..(c - 1))

\* GridManager._make_empty_grid
_make_empty_grid(r, c) == [i \in 0..(r - 1) |-> [j \in 0..(c - 1) |-> EMPTY]]

\* cells[p[0]][p[1]] = v
SetCell(cells, p, v) == [cells EXCEPT ![p[1]][p[2]] = v]

RECURSIVE SetCells(_, _, _)
SetCells(cells, ps, v) ==
    IF ps = {} THEN cells
    ELSE LET p == CHOOSE q \in ps : TRUE
         IN  SetCells(SetCell(cells, p, v), ps \ {p}, v)

\* The grid a GridManager holds after its edits: Start at s, then Goal at g
\* (as in __init__, the Goal mark is written last), obstacles elsewhere.
GridWith(r, c, s, g, obstacles) ==
    SetCell(SetCell(SetCells(_make_empty_grid(r, c), obstacles, OBSTACLE),
                    s, START), g, GOAL)

(***************************************************************************)
(* modules/algorithms.py: get_neighbors                                    *)
(***************************************************************************)
\* Mutant: the four diagonal moves are offered as well.
directions_with_diagonals ==
    << <<-1, 0>>, <<1, 0>>, <<0, -1>>, <<0, 1>>,
       <<-1, -1>>, <<-1, 1>>, <<1, -1>>, <<1, 1>> >>

\* Mutant: the move to the right is missing.
directions_without_right == << <<-1, 0>>, <<1, 0>>, <<0, -1>> >>

\* up, down, left, right
directions == << <<-1, 0>>, <<1, 0>>, <<0, -1>>, <<0, 1>> >>

\* Mutant: the obstacle test is missing.
Walkable_in_bounds_only(g, nr, nc, r, c) ==
    0 <= nr /\ nr < r /\ 0 <= nc /\ nc < c

\* Mutant: only EMPTY cells are walkable, not the Start and Goal cells.
Walkable_only_empty(g, nr, nc, r, c) ==
    /\ 0 <= nr /\ nr < r /\ 0 <= nc /\ nc < c
    /\ g[nr][nc] = EMPTY

\* The filter of one direction: in bounds and not an obstacle.
Walkable(g, nr, nc, r, c) ==
    /\ 0 <= nr /\ nr < r /\ 0 <= nc /\ nc < c
    /\ g[nr][nc] # OBSTACLE

RECURSIVE NeighborsFrom(_, _, _, _, _, _)
NeighborsFrom(i, g, row, col, r, c) ==
    IF i > Len(directions) THEN <<>>
    ELSE LET nr == row + directions[i][1]
             nc == col + directions[i][2]
             rest == NeighborsFrom(i + 1, g, row, col, r, c)
         IN  IF Walkable(g, nr, nc, r, c) THEN <<<<nr, nc>>>> \o rest ELSE rest

get_neighbors(g, row, col, r, c) == NeighborsFrom(1, g, row, col, r, c)

(***************************************************************************)
(* modules/algorithms.py: reconstruct_path.  The result is the record      *)
(* [raised, path]: raised is TRUE when came_from[current] is a KeyError.   *)
(***************************************************************************)
Reverse(s) == [i \in 1..Len(s) |-> s[Len(s) + 1 - i]]

\* Lines 94-96: the walk from current back to the start, appending to acc.
RECURSIVE Walk(_, _, _)
Walk(cf, current, acc) ==
    IF current = None THEN [raised |-> FALSE, path |-> acc]
    ELSE IF current \notin DOMAIN cf THEN [raised |-> TRUE, path |-> None]
    ELSE Walk(cf, cf[current], Append(acc, current))

\* Mutant: the walk stops at the start without appending it
\* (`while came_from[current] is not None`).
RECURSIVE Walk_to_parentless(_, _, _)
Walk_to_parentless(cf, current, acc) ==
    IF current \notin DOMAIN cf THEN [raised |-> TRUE, path |-> None]
    ELSE IF cf[current] = None THEN [raised |-> FALSE, path |-> acc]
    ELSE Walk_to_parentless(cf, cf[current], Append(acc, current))

reconstruct_path_drops_start(cf, g) ==
    LET w == Walk_to_parentless(cf, g, <<>>)
    IN  [w EXCEPT !.path = Reverse(@)]

\* Mutant: path.reverse() is missing.
reconstruct_path_unreversed(cf, g) == Walk(cf, g, <<>>)

reconstruct_path(cf, g) ==
    LET w == Walk(cf, g, <<>>)
    IN  [w EXCEPT !.path = Reverse(@)]

(***************************************************************************)
(* heapq.  Entries are tuples, compared as Python compares tuples:         *)
(* (priority, node) in greedy_bfs, (f_score, g_score, node) in astar.      *)
(* heappop returns the least entry, so the heap is kept as the sorted      *)
(* sequence of its entries.                                                *)
(***************************************************************************)
\* Mutant: coordinates are compared by row only.
CoordLess_by_row(a, b) == a[1] < b[1]

CoordLess(a, b) == a[1] < b[1] \/ (a[1] = b[1] /\ a[2] < b[2])

EntryLess(x, y) ==
    IF Len(x) = 2
    THEN \/ NumLess(x[1], y[1])
         \/ x[1] = y[1] /\ CoordLess(x[2], y[2])
    ELSE \/ NumLess(x[1], y[1])
         \/ x[1] = y[1] /\ x[2] < y[2]
         \/ x[1] = y[1] /\ x[2] = y[2] /\ CoordLess(x[3], y[3])

heappush(heap, item) ==
    LET k == Cardinality({i \in 1..Len(heap) : EntryLess(heap[i], item)})
    IN  SubSeq(heap, 1, k) \o <<item>> \o SubSeq(heap, k + 1, Len(heap))

\* The node of a heap entry: item[1] in greedy_bfs, item[2] in astar.
EntryNode(item) == item[Len(item)]

\* frozenset(item[..] for item in open_list)
Frontier(heap) == {EntryNode(heap[i]) : i \in 1..Len(heap)}

----------------------------------------------------------------------------
(***************************************************************************)
(* The locals of one search call, as a record.                             *)
(***************************************************************************)
Frame == [pc |-> pc, open_list |-> open_list, came_from |-> came_from,
          g_score |-> g_score, closed_set |-> closed_set,
          visited_order |-> visited_order,
          frontier_snapshots |-> frontier_snapshots,
          path |-> path, raised |-> raised]

\* `return path, visited_order, frontier_snapshots`, or the exception
Return(f, p, exc) == [f EXCEPT !.pc = "done", !.path = p, !.raised = exc]

(***************************************************************************)
(* modules/algorithms.py: greedy_bfs                                       *)
(***************************************************************************)
\* Lines 137-148: the locals before the loop.
greedy_bfs_prologue(s, g, h) ==
    [pc |-> "loop",
     open_list |-> heappush(<<>>, <<Heuristic(h, s, g), s>>),
     came_from |-> (s :> None),
     g_score |-> <<>>,
     closed_set |-> {},
     visited_order |-> <<>>,
     frontier_snapshots |-> <<>>,
     path |-> None,
     raised |-> FALSE]

\* Lines 163-167: the loop over the neighbours, from the i-th on.
RECURSIVE greedy_expand(_, _, _, _, _, _)
greedy_expand(f, nbrs, i, current, g, h) ==
    IF i > Len(nbrs) THEN f
    ELSE LET neighbor == nbrs[i]
         IN  IF neighbor \notin DOMAIN f.came_from
             THEN greedy_expand(
                      [f EXCEPT !.came_from = (neighbor :> current) @@ @,
                                !.open_list = heappush(@,
                                    <<Heuristic(h, neighbor, g), neighbor>>)],
                      nbrs, i + 1, current, g, h)
             ELSE greedy_expand(f, nbrs, i + 1, current, g, h)

\* Mutant: the least entry is read but left in the heap.
greedy_bfs_iter_peeks(f, gr, g, r, c, h) ==
    LET current == Head(f.open_list)[2]
        popped == [f EXCEPT !.visited_order = Append(@, current)]
    IN  IF current = g
        THEN LET rp == reconstruct_path(popped.came_from, g)
             IN  Return(popped, rp.path, rp.raised)
        ELSE LET e == greedy_expand(popped,
                          get_neighbors(gr, current[1], current[2], r, c),
                          1, current, g, h)
             IN  [e EXCEPT !.frontier_snapshots = Append(@, Frontier(e.open_list))]

\* Lines 151-171: one iteration of `while open_list`, open_list not empty.
greedy_bfs_iter(f, gr, g, r, c, h) ==
    LET current == Head(f.open_list)[2]
        popped == [f EXCEPT !.open_list = Tail(@),
                            !.visited_order = Append(@, current)]
    IN  IF current = g
        THEN LET rp == reconstruct_path(popped.came_from, g)
             IN  Return(popped, rp.path, rp.raised)
        ELSE LET e == greedy_expand(popped,
                          get_neighbors(gr, current[1], current[2], r, c),
                          1, current, g, h)
             IN  [e EXCEPT !.frontier_snapshots = Append(@, Frontier(e.open_list))]

(***************************************************************************)
(* modules/algorithms.py: astar                                            *)
(***************************************************************************)
\* Lines 211-225: the locals before the loop.
astar_prologue(s, g, h) ==
    [pc |-> "loop",
     open_list |-> heappush(<<>>, <<Heuristic(h, s, g), 0, s>>),
     came_from |-> (s :> None),
     g_score |-> (s :> 0),
     closed_set |-> {},
     visited_order |-> <<>>,
     frontier_snapshots |-> <<>>,
     path |-> None,
     raised |-> FALSE]

\* Mutant: the step is not counted, tentative_g = g(current).
tentative_without_step(gs, current) == gs[current]

\* Line 249: the cost to reach a neighbour through current.
tentative(gs, current) == gs[current] + 1

\* Mutant: the cost so far is subtracted, f(n) = h(n) - g(n).
f_score_minus_g(tentative_g, hval) == <<hval[1] - tentative_g, hval[2]>>

\* Line 256: f(n) = g(n) + h(n)
f_score(tentative_g, hval) == NumAdd(tentative_g, hval)

\* Mutant: a path of equal cost replaces the recorded one as well.
Improves_or_equal(gs, neighbor, tentative_g) ==
    neighbor \notin DOMAIN gs \/ tentative_g <= gs[neighbor]

\* Line 252: is this a better path to neighbor than what was seen before?
Improves(gs, neighbor, tentative_g) ==
    neighbor \notin DOMAIN gs \/ tentative_g < gs[neighbor]

\* Lines 244-257: the loop over the neighbours, from the i-th on.  A missing
\* g_score[current] is a KeyError, which ends the call.
RECURSIVE astar_expand(_, _, _, _, _, _)
astar_expand(f, nbrs, i, current, g, h) ==
    IF i > Len(nbrs) THEN f
    ELSE LET neighbor == nbrs[i]
         IN  IF neighbor \in f.closed_set
             THEN astar_expand(f, nbrs, i + 1, current, g, h)
             ELSE IF current \notin DOMAIN f.g_score
             THEN Return(f, None, TRUE)
             ELSE LET tentative_g == tentative(f.g_score, current)
                  IN  IF Improves(f.g_score, neighbor, tentative_g)
                      THEN astar_expand(
                               [f EXCEPT
                                  !.g_score = (neighbor :> tentative_g) @@ @,
                                  !.came_from = (neighbor :> current) @@ @,
                                  !.open_list = heappush(@,
                                      <<f_score(tentative_g,
                                                Heuristic(h, neighbor, g)),
                                        tentative_g, neighbor>>)],
                               nbrs, i + 1, current, g, h)
                      ELSE astar_expand(f, nbrs, i + 1, current, g, h)

\* Mutant: the frontier is snapshotted before the neighbours are processed.
astar_iter_snapshot_first(f, gr, g, r, c, h) ==
    LET current == Head(f.open_list)[3]
        popped == [f EXCEPT !.open_list = Tail(@)]
    IN  IF current \in f.closed_set
        THEN popped
        ELSE LET marked == [popped EXCEPT !.closed_set = @ \cup {current},
                                          !.visited_order = Append(@, current)]
             IN  IF current = g
                 THEN LET rp == reconstruct_path(marked.came_from, g)
                      IN  Return(marked, rp.path, rp.raised)
                 ELSE LET e == astar_expand(marked,
                                   get_neighbors(gr, current[1], current[2], r, c),
                                   1, current, g, h)
                      IN  IF e.pc = "done" THEN e
                          ELSE [e EXCEPT !.frontier_snapshots =
                                             Append(@, Frontier(marked.open_list))]

\* Lines 228-261: one iteration of `while open_list`, open_list not empty.
astar_iter(f, gr, g, r, c, h) ==
    LET current == Head(f.open_list)[3]
        popped == [f EXCEPT !.open_list = Tail(@)]
    IN  IF current \in f.closed_set
        THEN popped
        ELSE LET marked == [popped EXCEPT !.closed_set = @ \cup {current},
                                          !.visited_order = Append(@, current)]
             IN  IF current = g
                 THEN LET rp == reconstruct_path(marked.came_from, g)
                      IN  Return(marked, rp.path, rp.raised)
                 ELSE LET e == astar_expand(marked,
                                   get_neighbors(gr, current[1], current[2], r, c),
                                   1, current, g, h)
                      IN  IF e.pc = "done" THEN e
                          ELSE [e EXCEPT !.frontier_snapshots =
                                             Append(@, Frontier(e.open_list))]

(***************************************************************************)
(* A whole call, as the function computes it: the prologue, then           *)
(* iterations until the return.  Lines 173 and 264 return None once the    *)
(* heap is empty.                                                          *)
(***************************************************************************)
RECURSIVE greedy_bfs_loop(_, _, _, _, _, _)
greedy_bfs_loop(f, gr, g, r, c, h) ==
    IF f.pc = "done" THEN f
    ELSE IF f.open_list = <<>> THEN Return(f, None, FALSE)
    ELSE greedy_bfs_loop(greedy_bfs_iter(f, gr, g, r, c, h), gr, g, r, c, h)

greedy_bfs(gr, s, g, r, c, h) ==
    greedy_bfs_loop(greedy_bfs_prologue(s, g, h), gr, g, r, c, h)

RECURSIVE astar_loop(_, _, _, _, _, _)
astar_loop(f, gr, g, r, c, h) ==
    IF f.pc = "done" THEN f
    ELSE IF f.open_list = <<>> THEN Return(f, None, FALSE)
    ELSE astar_loop(astar_iter(f, gr, g, r, c, h), gr, g, r, c, h)

astar(gr, s, g, r, c, h) ==
    astar_loop(astar_prologue(s, g, h), gr, g, r, c, h)

\* Mutant: only "Greedy BFS" selects greedy_bfs, any other name astar.
Callee_astar_by_default(name) ==
    IF name = ALGO_GBFS THEN "greedy_bfs" ELSE "astar"

\* Line 286: run_algorithm's choice of the function to call.
Callee(name) == IF name = ALGO_ASTAR THEN "astar" ELSE "greedy_bfs"

----------------------------------------------------------------------------
(***************************************************************************)
(* The state machine of one search call.                                   *)
(***************************************************************************)
Install(f) ==
    /\ pc' = f.pc
    /\ open_list' = f.open_list
    /\ came_from' = f.came_from
    /\ g_score' = f.g_score
    /\ closed_set' = f.closed_set
    /\ visited_order' = f.visited_order
    /\ frontier_snapshots' = f.frontier_snapshots
    /\ path' = f.path
    /\ raised' = f.raised

\* The arguments of a call: a grid as a GridManager holds it (one Start,
\* one Goal, neither an obstacle) and the function get_heuristic returned.
Init ==
    /\ rows \in 1..MaxRows
    /\ cols \in 1..MaxCols
    /\ rows * cols <= MaxCells
    /\ start \in Coords(rows, cols)
    /\ goal \in Coords(rows, cols)
    /\ \E obstacles \in SUBSET (Coords(rows, cols) \ {start, goal}) :
          /\ Cardinality(obstacles) <= MaxObstacles
          /\ grid = GridWith(rows, cols, start, goal, obstacles)
    /\ op = None
    /\ pre = None
    /\ heuristic_fn = None
    /\ algo_name = None
    /\ fn = None
    /\ pc = "idle"
    /\ open_list = <<>>
    /\ came_from = <<>>
    /\ g_score = <<>>
    /\ closed_set = {}
    /\ visited_order = <<>>
    /\ frontier_snapshots = <<>>
    /\ path = None
    /\ raised = FALSE
    /\ NoRun

\* run_algorithm(algo_name, grid, start, goal, rows, cols, heuristic_fn):
\* the dispatch and the callee's prologue.
run_algorithm ==
    /\ pc = "idle"
    /\ \E name \in AlgoNames, h \in HeuristicFns :
          /\ algo_name' = name
          /\ heuristic_fn' = h
          /\ fn' = Callee(name)
          /\ Install(IF Callee(name) = "astar"
                     THEN astar_prologue(start, goal, h)
                     ELSE greedy_bfs_prologue(start, goal, h))
    /\ UNCHANGED <<grid, rows, cols, start, goal, op, pre, app>>

\* One iteration of greedy_bfs's loop.
GreedyIter ==
    /\ pc = "loop" /\ fn = "greedy_bfs" /\ open_list # <<>>
    /\ Install(greedy_bfs_iter(Frame, grid, goal, rows, cols, heuristic_fn))
    /\ UNCHANGED <<inputs, algo_name, fn>>

\* Mutant: on an empty heap the search starts over from the start.
GreedyNoPath_starts_over ==
    /\ pc = "loop" /\ fn = "greedy_bfs" /\ open_list = <<>>
    /\ Install([Frame EXCEPT !.open_list =
                    heappush(<<>>, <<Heuristic(heuristic_fn, start, goal), start>>)])
    /\ UNCHANGED <<inputs, algo_name, fn>>

\* greedy_bfs, line 173: the heap is empty.
GreedyNoPath ==
    /\ pc = "loop" /\ fn = "greedy_bfs" /\ open_list = <<>>
    /\ Install(Return(Frame, None, FALSE))
    /\ UNCHANGED <<inputs, algo_name, fn>>

\* Mutant: the iteration marks the cell it popped in the grid.
AstarIter_marks_grid ==
    /\ pc = "loop" /\ fn = "astar" /\ open_list # <<>>
    /\ Install(astar_iter(Frame, grid, goal, rows, cols, heuristic_fn))
    /\ grid' = SetCell(grid, Head(open_list)[3], EMPTY)
    /\ UNCHANGED <<rows, cols, start, goal, op, pre, heuristic_fn, algo_name, fn,
                   app>>

\* One iteration of astar's loop.
AstarIter ==
    /\ pc = "loop" /\ fn = "astar" /\ open_list # <<>>
    /\ Install(astar_iter(Frame, grid, goal, rows, cols, heuristic_fn))
    /\ UNCHANGED <<inputs, algo_name, fn>>

\* astar, line 264: the heap is empty.
AstarNoPath ==
    /\ pc = "loop" /\ fn = "astar" /\ open_list = <<>>
    /\ Install(Return(Frame, None, FALSE))
    /\ UNCHANGED <<inputs, algo_name, fn>>

Next ==
    \/ run_algorithm
    \/ GreedyIter
    \/ GreedyNoPath
    \/ AstarIter
    \/ AstarNoPath

Spec == Init /\ [][Next]_vars

-----------------------------------------------------------------------------
(***************************************************************************)
(* modules/grid.py: GridManager                                            *)
(***************************************************************************)

\* The fields of a GridManager.
Fields(r, c, s, g, cells) ==
    [rows |-> r, cols |-> c, start |-> s, goal |-> g, cells |-> cells]

\* The GridManager the state holds.
self == Fields(rows, cols, start, goal, grid)

\* lst[i] on a list of n items: -n..-1 count from the end, and any index
\* outside -n..n-1 raises IndexError.
Indexable(i, n) == -n <= i /\ i < n

Index(i, n) == IF i < 0 THEN i + n ELSE i

\* self.cells[p[0]][p[1]] exists / the cell it is
HasCell(gm, p) == Indexable(p[1], gm.rows) /\ Indexable(p[2], gm.cols)

CellOf(gm, p) == <<Index(p[1], gm.rows), Index(p[2], gm.cols)>>

\* self.cells[p[0]][p[1]]
get_cell(gm, p) == gm.cells[CellOf(gm, p)[1]][CellOf(gm, p)[2]]

\* self.cells[p[0]][p[1]] = v
Store(gm, p, v) == [gm EXCEPT !.cells = SetCell(@, CellOf(gm, p), v)]

\* What a call leaves behind: the fields, the returned value, and whether it
\* ended in an IndexError instead of returning. A returned cell state v is
\* kept as <<v>>, which tells it from None.
Outcome(gm, ret, fault) == [self |-> gm, ret |-> ret, raised |-> fault]

\* GridManager.__init__(rows, cols)
GridManager(r, c) ==
    LET blank == Fields(r, c, <<0, 0>>, <<r - 1, c - 1>>, _make_empty_grid(r, c))
    IN  Store(Store(blank, blank.start, START), blank.goal, GOAL)

\* GridManager.resize(new_rows, new_cols)
resize(gm, new_rows, new_cols) ==
    LET sized == [gm EXCEPT !.rows = new_rows,
                            !.cols = new_cols,
                            !.start = <<0, 0>>,
                            !.goal = <<new_rows - 1, new_cols - 1>>,
                            !.cells = _make_empty_grid(new_rows, new_cols)]
    IN  Store(Store(sized, sized.start, START), sized.goal, GOAL)

clear_obstacles_and_marks(gm) ==
    [gm EXCEPT !.cells = _make_empty_grid(gm.rows, gm.cols)]

\* GridManager.clear_obstacles()
clear_obstacles(gm) ==
    [gm EXCEPT !.cells =
        [r \in 0..(gm.rows - 1) |->
            [c \in 0..(gm.cols - 1) |->
                IF gm.cells[r][c] = OBSTACLE THEN EMPTY ELSE gm.cells[r][c]]]]

\* GridManager._is_safe_to_edit(row, col)
_is_safe_to_edit(gm, row, col) ==
    /\ <<row, col>> # gm.start
    /\ <<row, col>> # gm.goal
    /\ 0 <= row /\ row < gm.rows
    /\ 0 <= col /\ col < gm.cols

toggle_obstacle_one_way(gm, row, col) ==
    IF ~_is_safe_to_edit(gm, row, col)
    THEN Outcome(gm, None, FALSE)
    ELSE Outcome(Store(gm, <<row, col>>, OBSTACLE), <<OBSTACLE>>, FALSE)

\* GridManager.toggle_obstacle(row, col)
toggle_obstacle(gm, row, col) ==
    IF ~_is_safe_to_edit(gm, row, col)
    THEN Outcome(gm, None, FALSE)
    ELSE IF get_cell(gm, <<row, col>>) = OBSTACLE
         THEN Outcome(Store(gm, <<row, col>>, EMPTY), <<EMPTY>>, FALSE)
         ELSE Outcome(Store(gm, <<row, col>>, OBSTACLE), <<OBSTACLE>>, FALSE)

\* GridManager.place_obstacle(row, col)
place_obstacle(gm, row, col) ==
    IF ~_is_safe_to_edit(gm, row, col)
    THEN Outcome(gm, FALSE, FALSE)
    ELSE IF get_cell(gm, <<row, col>>) = OBSTACLE
         THEN Outcome(gm, FALSE, FALSE)
         ELSE Outcome(Store(gm, <<row, col>>, OBSTACLE), TRUE, FALSE)

\* random.random(), in hundredths: 0.0 <= x < 1.0
UniformDraws == {0, 50, 99}

\* The percentages a caller passes: density_percent, and spawn_prob in
\* hundredths.
Percents == {0, 50, 100}

generate_random_additive(gm, density_percent, draws) ==
    [gm EXCEPT !.cells =
        [r \in 0..(gm.rows - 1) |->
            [c \in 0..(gm.cols - 1) |->
                IF <<r, c>> = gm.start \/ <<r, c>> = gm.goal
                THEN gm.cells[r][c]
                ELSE IF draws[<<r, c>>] < density_percent
                     THEN OBSTACLE
                     ELSE gm.cells[r][c]]]]

\* GridManager.generate_random(density_percent); draws[<<r, c>>] is the
\* random.random() drawn for cell (r, c).
generate_random(gm, density_percent, draws) ==
    [gm EXCEPT !.cells =
        [r \in 0..(gm.rows - 1) |->
            [c \in 0..(gm.cols - 1) |->
                IF <<r, c>> = gm.start \/ <<r, c>> = gm.goal
                THEN gm.cells[r][c]
                ELSE IF draws[<<r, c>>] < density_percent
                     THEN OBSTACLE
                     ELSE EMPTY]]]

move_start_leaves_mark(gm, new_row, new_col) ==
    IF <<new_row, new_col>> = gm.goal
    THEN Outcome(gm, None, FALSE)
    ELSE LET moved == [gm EXCEPT !.start = <<new_row, new_col>>]
         IN  IF ~HasCell(moved, moved.start)
             THEN Outcome(moved, None, TRUE)
             ELSE Outcome(Store(moved, moved.start, START), gm.start, FALSE)

\* GridManager.move_start(new_row, new_col)
move_start(gm, new_row, new_col) ==
    IF <<new_row, new_col>> = gm.goal
    THEN Outcome(gm, None, FALSE)
    ELSE LET old_start == gm.start
         IN  IF ~HasCell(gm, old_start)
             THEN Outcome(gm, None, TRUE)
             ELSE LET moved == [Store(gm, old_start, EMPTY)
                                    EXCEPT !.start = <<new_row, new_col>>]
                  IN  IF ~HasCell(moved, moved.start)
                      THEN Outcome(moved, None, TRUE)
                      ELSE Outcome(Store(moved, moved.start, START),
                                   old_start, FALSE)

\* GridManager.move_goal(new_row, new_col)
move_goal(gm, new_row, new_col) ==
    IF <<new_row, new_col>> = gm.start
    THEN Outcome(gm, None, FALSE)
    ELSE LET old_goal == gm.goal
         IN  IF ~HasCell(gm, old_goal)
             THEN Outcome(gm, None, TRUE)
             ELSE LET moved == [Store(gm, old_goal, EMPTY)
                                    EXCEPT !.goal = <<new_row, new_col>>]
                  IN  IF ~HasCell(moved, moved.goal)
                      THEN Outcome(moved, None, TRUE)
                      ELSE Outcome(Store(moved, moved.goal, GOAL),
                                   old_goal, FALSE)

\* try_spawn_dynamic_obstacle: `for _ in range(20)`
SpawnAttempts == 20

more_picks_inclusive(picks) == picks <= SpawnAttempts

\* try_spawn_dynamic_obstacle: `for _ in range(20)` has a turn left after
\* `picks` turns.
more_picks(picks) == picks < SpawnAttempts

\* try_spawn_dynamic_obstacle: `if random.random() > spawn_prob`, both in
\* hundredths.
spawn_skipped(draw, spawn_prob) == draw > spawn_prob

spawn_pick_ignores_agent(gm, agent, remaining, r, c) ==
    IF \/ <<r, c>> = gm.start
       \/ <<r, c>> = gm.goal
       \/ get_cell(gm, <<r, c>>) = OBSTACLE
    THEN Outcome(gm, None, FALSE)
    ELSE Outcome(Store(gm, <<r, c>>, OBSTACLE),
                 << <<r, c>>, \E i \in 1..Len(remaining) :
                                  remaining[i] = <<r, c>> >>,
                 FALSE)

\* try_spawn_dynamic_obstacle: one turn of the loop with the pick (r, c);
\* ret is None when the pick is skipped (`continue`).
spawn_pick(gm, agent, remaining, r, c) ==
    IF \/ <<r, c>> = gm.start
       \/ <<r, c>> = gm.goal
       \/ <<r, c>> = agent
       \/ get_cell(gm, <<r, c>>) = OBSTACLE
    THEN Outcome(gm, None, FALSE)
    ELSE Outcome(Store(gm, <<r, c>>, OBSTACLE),
                 << <<r, c>>, \E i \in 1..Len(remaining) :
                                  remaining[i] = <<r, c>> >>,
                 FALSE)

\* Coordinates a caller may pass to an edit: the cells, what Python reads as
\* negative indices, and one step beyond either end.
EdgeCoords(r, c) == ((-(r + 1))..r) \X ((-(c + 1))..c)

\* The remaining paths given to try_spawn_dynamic_obstacle: lists of
\* distinct cells.
Paths(r, c) ==
    {p \in UNION {[1..n -> Coords(r, c)] : n \in 0..MaxPathLen} :
        \A i, j \in 1..Len(p) : i # j => p[i] # p[j]}

\* The variables of a search call, which no GridManager method touches.
search == <<heuristic_fn, algo_name, fn, open_list, came_from, g_score,
            closed_set, visited_order, frontier_snapshots, path>>

Call(name, args, random, picks, ret) ==
    [name |-> name, args |-> args, random |-> random, picks |-> picks,
     ret |-> ret]

\* The state takes the fields gm.
Hold(gm) ==
    /\ rows' = gm.rows
    /\ cols' = gm.cols
    /\ start' = gm.start
    /\ goal' = gm.goal
    /\ grid' = gm.cells

\* A method call that runs from entry to exit in one step.
Finish(name, args, random, out) ==
    /\ pre' = self
    /\ Hold(out.self)
    /\ op' = Call(name, args, random, 0, out.ret)
    /\ raised' = out.raised
    /\ pc' = "returned"
    /\ UNCHANGED <<search, app>>

GridInit ==
    /\ \E r \in 1..GridMaxRows, c \in 1..GridMaxCols :
          /\ r * c <= GridMaxCells
          /\ rows = GridManager(r, c).rows
          /\ cols = GridManager(r, c).cols
          /\ start = GridManager(r, c).start
          /\ goal = GridManager(r, c).goal
          /\ grid = GridManager(r, c).cells
          /\ op = Call("__init__", <<r, c>>, <<>>, 0, None)
    /\ pre = None
    /\ heuristic_fn = "manhattan_distance"
    /\ algo_name = None
    /\ fn = None
    /\ pc = "returned"
    /\ open_list = <<>>
    /\ came_from = <<>>
    /\ g_score = <<>>
    /\ closed_set = {}
    /\ visited_order = <<>>
    /\ frontier_snapshots = <<>>
    /\ path = None
    /\ raised = FALSE
    /\ NoRun

\* No call is under way.
Ready == pc = "idle"

\* Before any call, and once the caller has taken a call's returned value.
NoCall == Call("", <<>>, <<>>, 0, None)

\* The caller takes what the call returned and goes on; a call that ended
\* in an IndexError has no caller to go back to.
Resume ==
    /\ pc = "returned"
    /\ ~raised
    /\ pc' = "idle"
    /\ op' = NoCall
    /\ pre' = None
    /\ UNCHANGED <<rows, cols, start, goal, grid, raised, search, app>>

Resize ==
    /\ Ready
    /\ \E r \in 1..GridMaxRows, c \in 1..GridMaxCols :
          /\ r * c <= GridMaxCells
          /\ Finish("resize", <<r, c>>, <<>>,
                    Outcome(resize(self, r, c), None, FALSE))

ClearObstacles ==
    /\ Ready
    /\ Finish("clear_obstacles", <<>>, <<>>,
              Outcome(clear_obstacles(self), None, FALSE))

GenerateRandom ==
    /\ Ready
    /\ \E density_percent \in Percents :
          \E draws \in [Coords(rows, cols) \ {start, goal} -> UniformDraws] :
              Finish("generate_random", <<density_percent>>, draws,
                     Outcome(generate_random(self, density_percent, draws),
                             None, FALSE))

ToggleObstacle ==
    /\ Ready
    /\ \E p \in EdgeCoords(rows, cols) :
          Finish("toggle_obstacle", p, <<>>, toggle_obstacle(self, p[1], p[2]))

PlaceObstacle ==
    /\ Ready
    /\ \E p \in EdgeCoords(rows, cols) :
          Finish("place_obstacle", p, <<>>, place_obstacle(self, p[1], p[2]))

\* The moves the canvas makes: onto a cell of the grid.
MoveStart ==
    /\ Ready
    /\ \E p \in Coords(rows, cols) :
          Finish("move_start", p, <<>>, move_start(self, p[1], p[2]))

MoveGoal ==
    /\ Ready
    /\ \E p \in Coords(rows, cols) :
          Finish("move_goal", p, <<>>, move_goal(self, p[1], p[2]))

\* try_spawn_dynamic_obstacle(agent_pos, current_path, spawn_prob): entry
\* and the first draw.
TrySpawn ==
    /\ Ready
    /\ \E agent \in Coords(rows, cols), remaining \in Paths(rows, cols),
          spawn_prob \in Percents, draw \in UniformDraws :
          /\ pre' = self
          /\ IF spawn_skipped(draw, spawn_prob)
             THEN /\ pc' = "returned"
                  /\ op' = Call("try_spawn_dynamic_obstacle",
                                <<agent, remaining, spawn_prob>>,
                                <<draw>>, 0, <<None, FALSE>>)
             ELSE /\ pc' = "spawn"
                  /\ op' = Call("try_spawn_dynamic_obstacle",
                                <<agent, remaining, spawn_prob>>,
                                <<draw>>, 0, None)
    /\ UNCHANGED <<rows, cols, start, goal, grid, raised, search, app>>

\* One turn of `for _ in range(20)`, or the loop's end.
SpawnPick ==
    /\ pc = "spawn"
    /\ IF more_picks(op.picks)
       THEN \E r \in 0..(rows - 1), c \in 0..(cols - 1) :
               LET out == spawn_pick(self, op.args[1], op.args[2], r, c)
               IN  /\ Hold(out.self)
                   /\ op' = [op EXCEPT !.picks = @ + 1, !.ret = out.ret]
                   /\ pc' = IF out.ret = None THEN "spawn" ELSE "returned"
       ELSE /\ op' = [op EXCEPT !.ret = <<None, FALSE>>]
            /\ pc' = "returned"
            /\ UNCHANGED <<rows, cols, start, goal, grid>>
    /\ UNCHANGED <<pre, raised, search, app>>

GridNext ==
    \/ Resize
    \/ ClearObstacles
    \/ GenerateRandom
    \/ ToggleObstacle
    \/ PlaceObstacle
    \/ MoveStart
    \/ MoveGoal
    \/ TrySpawn
    \/ SpawnPick
    \/ Resume

GridSpec == GridInit /\ [][GridNext]_vars

\* The edit methods called with any coordinates, on and off the grid.
MoveStartAnywhere ==
    /\ Ready
    /\ \E p \in EdgeCoords(rows, cols) :
          Finish("move_start", p, <<>>, move_start(self, p[1], p[2]))

MoveGoalAnywhere ==
    /\ Ready
    /\ \E p \in EdgeCoords(rows, cols) :
          Finish("move_goal", p, <<>>, move_goal(self, p[1], p[2]))

EditNext ==
    \/ ToggleObstacle
    \/ PlaceObstacle
    \/ MoveStartAnywhere
    \/ MoveGoalAnywhere
    \/ Resume

EditSpec == GridInit /\ [][EditNext]_vars

-----------------------------------------------------------------------------
(***************************************************************************)
(* modules/app.py: PathfindingApp, with the animation timers of            *)
(* modules/visualizer.py. A callback runs from entry to exit in one step;  *)
(* where one callback calls the next (_run_search_step -> _on_search_done  *)
(* -> _step_agent) pc holds the callee about to be entered.                *)
(***************************************************************************)
HEURISTIC_MANHATTAN == "Manhattan"
HEURISTIC_EUCLIDEAN == "Euclidean"

MODE_OBSTACLE == "obstacle"
MODE_START == "start"
MODE_GOAL == "goal"

\* What the dropdowns and the radio buttons offer.
AlgoChoices == {ALGO_ASTAR, ALGO_GBFS}

HeuristicChoices == {HEURISTIC_MANHATTAN, HEURISTIC_EUCLIDEAN}

EditModes == {MODE_OBSTACLE, MODE_START, MODE_GOAL}

\* heuristics.get_heuristic(name)
get_heuristic(name) ==
    IF name = HEURISTIC_MANHATTAN THEN "manhattan_distance"
    ELSE IF name = HEURISTIC_EUCLIDEAN THEN "euclidean_distance"
    ELSE "manhattan_distance"

\* algorithms.run_algorithm(...), as the value the call returns.
RunAlgorithm(name, gr, s, g, r, c, h) ==
    IF Callee(name) = "astar"
    THEN astar(gr, s, g, r, c, h)
    ELSE greedy_bfs(gr, s, g, r, c, h)

\* try_spawn_dynamic_obstacle from its `picks`-th turn on: every outcome the
\* remaining picks can give. A rejected pick leaves the grid as it was.
RECURSIVE spawn_loop(_, _, _, _)
spawn_loop(gm, agent, remaining, picks) ==
    IF ~more_picks(picks)
    THEN {Outcome(gm, <<None, FALSE>>, FALSE)}
    ELSE LET turns == {spawn_pick(gm, agent, remaining, p[1], p[2]) :
                          p \in Coords(gm.rows, gm.cols)}
         IN  {t \in turns : t.ret # None}
                 \cup (IF \E t \in turns : t.ret = None
                       THEN spawn_loop(gm, agent, remaining, picks + 1)
                       ELSE {})

\* GridManager.try_spawn_dynamic_obstacle(agent_pos, current_path,
\* spawn_prob): the outcomes of the whole call, given the first draw.
try_spawn_dynamic_obstacle(gm, agent, remaining, spawn_prob, draw) ==
    IF spawn_skipped(draw, spawn_prob)
    THEN {Outcome(gm, <<None, FALSE>>, FALSE)}
    ELSE spawn_loop(gm, agent, remaining, 0)

\* The controller, its grid, the animation's lists and the timer queue.
this ==
    [grid |-> self, is_running |-> is_running, current_path |-> current_path,
     agent_pos |-> agent_pos, agent_path_idx |-> agent_path_idx,
     dyn_job |-> _dyn_job, anim_job |-> _anim_job, anim_step |-> _anim_step,
     visited |-> visited_order, path |-> path, timers |-> timers]

\* What a callback leaves behind: the controller, and what it reported.
Left(a, ret) == [app |-> a, ret |-> ret]

\* PathfindingApp._reset_agent_state()
_reset_agent_state(a) ==
    [a EXCEPT !.current_path = <<>>, !.agent_pos = None, !.agent_path_idx = 0]

\* Visualizer.cancel_animation(): after_cancel of a job that has fired does
\* nothing.
cancel_animation(a) ==
    IF a.anim_job = "none" THEN a
    ELSE [a EXCEPT !.timers.anim = IF a.anim_job = "live" THEN @ - 1 ELSE @,
                   !.anim_job = "none"]

\* Mutant: only the animation's job is cancelled, the step's job is left.
_cancel_timers_animation_only(a) == cancel_animation(a)

\* PathfindingApp._cancel_timers()
_cancel_timers(a) ==
    LET b == cancel_animation(a)
    IN  IF b.dyn_job = "none" THEN b
        ELSE [b EXCEPT !.timers.dyn = IF b.dyn_job = "live" THEN @ - 1 ELSE @,
                       !.dyn_job = "none"]

\* self._anim_job = self.root.after(ANIM_DELAY, self._run_search_step)
after_anim(a) == [a EXCEPT !.timers.anim = @ + 1, !.anim_job = "live"]

after_dyn_not_scheduled(a) == a

\* self._dyn_job = self.root.after(DYN_DELAY, self._step_agent)
after_dyn(a) == [a EXCEPT !.timers.dyn = @ + 1, !.dyn_job = "live"]

\* The animation's lists are read by _run_search_step only; once no such
\* callback can come they are left out of the state.
drop_animation(a) == [a EXCEPT !.visited = <<>>, !.path = None, !.anim_step = 0]

apply_grid_size_unguarded(a, new_rows, new_cols) ==
    Left([a EXCEPT !.grid = resize(@, new_rows, new_cols)], "done")

\* PathfindingApp.apply_grid_size()
apply_grid_size(a, new_rows, new_cols) ==
    IF a.is_running THEN Left(a, "ignored")
    ELSE Left([a EXCEPT !.grid = resize(@, new_rows, new_cols)], "done")

\* PathfindingApp.generate_random_map()
generate_random_map(a, density, draws) ==
    IF a.is_running THEN Left(a, "ignored")
    ELSE Left([a EXCEPT !.grid = generate_random(@, density, draws)], "done")

\* PathfindingApp.clear_obstacles()
app_clear_obstacles(a) ==
    IF a.is_running THEN Left(a, "ignored")
    ELSE Left([a EXCEPT !.grid = clear_obstacles(@)], "done")

\* PathfindingApp._on_canvas_click(event); cell is what pixel_to_cell gave.
_on_canvas_click(a, cell, mode) ==
    IF a.is_running THEN Left(a, "ignored")
    ELSE IF cell = None THEN Left(a, "outside")
    ELSE IF mode = MODE_OBSTACLE
         THEN Left([a EXCEPT !.grid = toggle_obstacle(@, cell[1], cell[2]).self],
                   "done")
    ELSE IF mode = MODE_START
         THEN Left([a EXCEPT !.grid = move_start(@, cell[1], cell[2]).self],
                   "done")
    ELSE IF mode = MODE_GOAL
         THEN Left([a EXCEPT !.grid = move_goal(@, cell[1], cell[2]).self],
                   "done")
    ELSE Left(a, "done")

\* Visualizer.animate_search(...) and its first _run_search_step(): visited
\* always holds the start, so the first call schedules the second.
animate_search(a, visited, found) ==
    after_anim([a EXCEPT !.anim_step = 1, !.visited = visited, !.path = found])

\* PathfindingApp.start_search()
start_search(a, algo, heur) ==
    IF a.is_running THEN Left(a, "ignored")
    ELSE LET b == [_reset_agent_state(a) EXCEPT !.is_running = TRUE]
             f == RunAlgorithm(algo, b.grid.cells, b.grid.start, b.grid.goal,
                               b.grid.rows, b.grid.cols, get_heuristic(heur))
         IN  IF f.path = None
             THEN Left([b EXCEPT !.is_running = FALSE], "NoPath")
             ELSE Left(animate_search(b, f.visited_order, f.path), "Animating")

stop_reset_keeps_agent(a) ==
    Left(drop_animation([_cancel_timers(a) EXCEPT !.is_running = FALSE]),
         "Idle")

\* PathfindingApp.stop_reset()
stop_reset(a) ==
    Left(drop_animation(_reset_agent_state(
             [_cancel_timers(a) EXCEPT !.is_running = FALSE])),
         "Idle")

\* Visualizer._run_search_step(), entered from the timer: one more cell
\* coloured, or the end of the animation (_draw_path), which calls _on_done.
_run_search_step(a) ==
    IF a.anim_step < Len(a.visited)
    THEN Left(after_anim([a EXCEPT !.anim_step = @ + 1]), "Animating")
    ELSE Left(a, "_on_done")

_on_search_done_at_second(a, found, dynamic) ==
    IF dynamic
    THEN Left([drop_animation(a) EXCEPT !.current_path = found,
                                        !.agent_pos = a.grid.start,
                                        !.agent_path_idx = 1],
              "_step_agent")
    ELSE Left([drop_animation(a) EXCEPT !.is_running = FALSE], "Idle")

\* PathfindingApp._on_search_done(path), up to its call of _step_agent().
_on_search_done(a, found, dynamic) ==
    IF dynamic
    THEN Left([drop_animation(a) EXCEPT !.current_path = found,
                                        !.agent_pos = a.grid.start,
                                        !.agent_path_idx = 0],
              "_step_agent")
    ELSE Left([drop_animation(a) EXCEPT !.is_running = FALSE], "Idle")

Unwalked_after_next(a) ==
    SubSeq(a.current_path, a.agent_path_idx + 2, Len(a.current_path))

\* current_path[agent_path_idx:]
Unwalked(a) == SubSeq(a.current_path, a.agent_path_idx + 1, Len(a.current_path))

give_up_keeps_stepping(a) == after_dyn(a)

\* _replan, no path: `self.is_running = False` and no further step.
give_up(a) == [a EXCEPT !.is_running = FALSE]

_replan_from_start(a, algo, heur) ==
    LET f == RunAlgorithm(algo, a.grid.cells, a.grid.start, a.grid.goal,
                          a.grid.rows, a.grid.cols, get_heuristic(heur))
    IN  IF f.path = None
        THEN Left(give_up(a), "Trapped")
        ELSE Left(after_dyn([a EXCEPT !.current_path = f.path,
                                      !.agent_path_idx = 1]),
                  "Replanned")

\* PathfindingApp._replan()
_replan(a, algo, heur) ==
    LET f == RunAlgorithm(algo, a.grid.cells, a.agent_pos, a.grid.goal,
                          a.grid.rows, a.grid.cols, get_heuristic(heur))
    IN  IF f.path = None
        THEN Left(give_up(a), "Trapped")
        ELSE Left(after_dyn([a EXCEPT !.current_path = f.path,
                                      !.agent_path_idx = 1]),
                  "Replanned")

\* What _step_agent reports: how it ended, obs_pos and blocked.
Stepped(a, status, obs_pos, blocks_path) ==
    Left(a, [status |-> status, obs_pos |-> obs_pos, blocked |-> blocks_path])

goal_reached_one_early(a) == a.agent_path_idx + 1 >= Len(a.current_path)

\* _step_agent: `if self.agent_path_idx >= len(self.current_path)`
goal_reached(a) == a.agent_path_idx >= Len(a.current_path)

advance_to_the_end(a) ==
    [a EXCEPT !.agent_pos = a.current_path[Len(a.current_path)],
              !.agent_path_idx = @ + 1]

\* _step_agent: the move onto current_path[agent_path_idx]
advance(a) ==
    [a EXCEPT !.agent_pos = a.current_path[a.agent_path_idx + 1],
              !.agent_path_idx = @ + 1]

must_replan_on_any_spawn(out) == out.ret[1] # None

\* _step_agent: `if blocked`
must_replan(out) == out.ret[2]

\* _step_agent after the move, given what try_spawn_dynamic_obstacle left.
after_spawn(moved, out, algo, heur) ==
    LET spawned_on == [moved EXCEPT !.grid = out.self]
    IN  IF must_replan(out)
        THEN LET r == _replan(spawned_on, algo, heur)
             IN  Stepped(r.app, r.ret, out.ret[1], out.ret[2])
        ELSE Stepped(after_dyn(spawned_on), "Walking", out.ret[1], out.ret[2])

\* PathfindingApp._step_agent(): every outcome the random picks of
\* try_spawn_dynamic_obstacle can give.
_step_agent(a, spawn_prob, draw, algo, heur) ==
    IF ~a.is_running THEN {Stepped(a, "ignored", None, FALSE)}
    ELSE IF goal_reached(a)
    THEN {Stepped([a EXCEPT !.is_running = FALSE], "GoalReached", None, FALSE)}
    ELSE {after_spawn(advance(a), out, algo, heur) :
             out \in try_spawn_dynamic_obstacle(
                         advance(a).grid, advance(a).agent_pos,
                         Unwalked(advance(a)), spawn_prob, draw)}

\* The state takes the controller a.
Take(a) ==
    /\ Hold(a.grid)
    /\ is_running' = a.is_running
    /\ current_path' = a.current_path
    /\ agent_pos' = a.agent_pos
    /\ agent_path_idx' = a.agent_path_idx
    /\ _dyn_job' = a.dyn_job
    /\ _anim_job' = a.anim_job
    /\ _anim_step' = a.anim_step
    /\ visited_order' = a.visited
    /\ path' = a.path
    /\ timers' = a.timers

\* A callback has run: res is what it left, next the callee it goes on to
\* ("returned" when it is back in the event loop).
Handled(name, args, random, res, next) ==
    /\ pre' = this
    /\ Take(res.app)
    /\ op' = Call(name, args, random, 0, res.ret)
    /\ pc' = next
    /\ UNCHANGED <<heuristic_fn, algo_name, fn, open_list, came_from, g_score,
                   closed_set, frontier_snapshots, raised>>

\* PathfindingApp.__init__
AppInit ==
    /\ \E r \in 1..AppMaxRows, c \in 1..AppMaxCols :
          /\ r * c <= AppMaxCells
          /\ rows = GridManager(r, c).rows
          /\ cols = GridManager(r, c).cols
          /\ start = GridManager(r, c).start
          /\ goal = GridManager(r, c).goal
          /\ grid = GridManager(r, c).cells
          /\ op = Call("__init__", <<r, c>>, <<>>, 0, None)
    /\ pre = None
    /\ heuristic_fn = "manhattan_distance"
    /\ algo_name = None
    /\ fn = None
    /\ pc = "returned"
    /\ open_list = <<>>
    /\ came_from = <<>>
    /\ g_score = <<>>
    /\ closed_set = {}
    /\ visited_order = <<>>
    /\ frontier_snapshots = <<>>
    /\ path = None
    /\ raised = FALSE
    /\ NoRun

\* Scope of the user's edits: resizing, random maps and canvas clicks come
\* during a run (where the callbacks return at once) or on a controller
\* that holds no path of an ended walk; after a walk has ended the user
\* clears the obstacles, stops or searches again. The path an ended walk
\* left is never read: start_search and stop_reset overwrite it.
MapInUse == is_running \/ current_path = <<>>

ApplyGridSize ==
    /\ Ready
    /\ MapInUse
    /\ \E r \in 1..AppMaxRows, c \in 1..AppMaxCols :
          /\ r * c <= AppMaxCells
          /\ Handled("apply_grid_size", <<r, c>>, <<>>,
                     apply_grid_size(this, r, c), "returned")

GenerateRandomMap ==
    /\ Ready
    /\ MapInUse
    /\ \E density \in Percents :
          \E draws \in [Coords(rows, cols) \ {start, goal} -> UniformDraws] :
              Handled("generate_random_map", <<density>>, <<>>,
                      generate_random_map(this, density, draws), "returned")

ClearObstaclesButton ==
    /\ Ready
    /\ Handled("clear_obstacles", <<>>, <<>>, app_clear_obstacles(this),
               "returned")

CanvasClick ==
    /\ Ready
    /\ MapInUse
    /\ \E cell \in Coords(rows, cols) \cup {None}, mode \in EditModes :
          Handled("_on_canvas_click", <<cell, mode>>, <<>>,
                  _on_canvas_click(this, cell, mode), "returned")

StartSearch ==
    /\ Ready
    /\ \E algo \in AlgoChoices, heur \in HeuristicChoices :
          Handled("start_search", <<algo, heur>>, <<>>,
                  start_search(this, algo, heur), "returned")

StopReset ==
    /\ Ready
    /\ Handled("stop_reset", <<>>, <<>>, stop_reset(this), "returned")

\* The controller as a timer callback finds it: the job that fires leaves
\* the queue, and the handle that named it names a job that has fired.
AnimFired(by_handle) ==
    [this EXCEPT !.timers.anim = @ - 1,
                 !.anim_job = IF by_handle THEN "dead" ELSE @]

DynFired(by_handle) ==
    [this EXCEPT !.timers.dyn = @ - 1,
                 !.dyn_job = IF by_handle THEN "dead" ELSE @]

\* Tk runs a pending _run_search_step job.
RunSearchStep ==
    /\ Ready
    /\ \E by_handle \in BOOLEAN :
          /\ IF by_handle
             THEN _anim_job = "live"
             ELSE timers.anim > (IF _anim_job = "live" THEN 1 ELSE 0)
          /\ LET res == _run_search_step(AnimFired(by_handle))
             IN  Handled("_run_search_step", <<>>, <<>>, res,
                         IF res.ret = "_on_done"
                         THEN "_on_search_done"
                         ELSE "returned")

\* _draw_path calls self._on_done(): _on_search_done(path), with the
\* dynamic-mode box as it is then.
OnSearchDone ==
    /\ pc = "_on_search_done"
    /\ \E dynamic \in BOOLEAN :
          LET res == _on_search_done(this, path, dynamic)
          IN  Handled("_on_search_done", <<path>>, <<dynamic>>, res,
                      IF res.ret = "_step_agent" THEN "_step_agent" ELSE "returned")

\* _step_agent(), called by _on_search_done or run by Tk as a pending job.
StepAgent ==
    \E spawn_prob \in Percents, draw \in UniformDraws,
       algo \in AlgoChoices, heur \in HeuristicChoices :
        \/ /\ pc = "_step_agent"
           /\ \E res \in _step_agent(this, spawn_prob, draw, algo, heur) :
                 Handled("_step_agent", <<spawn_prob>>, <<>>, res, "returned")
        \/ /\ Ready
           /\ \E by_handle \in BOOLEAN :
                 /\ IF by_handle
                    THEN _dyn_job = "live"
                    ELSE timers.dyn > (IF _dyn_job = "live" THEN 1 ELSE 0)
                 /\ \E res \in _step_agent(DynFired(by_handle), spawn_prob,
                                           draw, algo, heur) :
                       Handled("_step_agent", <<spawn_prob>>, <<>>, res,
                               "returned")

AppNext ==
    \/ ApplyGridSize
    \/ GenerateRandomMap
    \/ ClearObstaclesButton
    \/ CanvasClick
    \/ StartSearch
    \/ StopReset
    \/ RunSearchStep
    \/ OnSearchDone
    \/ StepAgent
    \/ Resume

AppSpec == AppInit /\ [][AppNext]_vars

\* The controller at rest on a grid as the user's edits leave it: any size,
\* the start and the goal on two cells (on the one cell of a 1x1 grid),
\* obstacles on any of the others.
WalkInit ==
    /\ \E r \in 1..AppMaxRows, c \in 1..AppMaxCols :
          /\ r * c <= AppMaxCells
          /\ \E s \in Coords(r, c), g \in Coords(r, c) :
                /\ s = g <=> r * c = 1
                /\ \E obstacles \in SUBSET (Coords(r, c) \ {s, g}) :
                      /\ rows = r
                      /\ cols = c
                      /\ start = s
                      /\ goal = g
                      /\ grid = GridWith(r, c, s, g, obstacles)
    /\ op = NoCall
    /\ pre = None
    /\ heuristic_fn = "manhattan_distance"
    /\ algo_name = None
    /\ fn = None
    /\ pc = "idle"
    /\ open_list = <<>>
    /\ came_from = <<>>
    /\ g_score = <<>>
    /\ closed_set = {}
    /\ visited_order = <<>>
    /\ frontier_snapshots = <<>>
    /\ path = None
    /\ raised = FALSE
    /\ NoRun

\* A session in which the user only starts searches: no edit, and Stop/Reset
\* is never pressed.
WalkNext ==
    \/ StartSearch
    \/ RunSearchStep
    \/ OnSearchDone
    \/ StepAgent
    \/ Resume

\* StepAgent can be taken: _on_search_done is about to call _step_agent, or
\* the event loop is idle and a _step_agent job is pending.
StepDue == pc = "_step_agent" \/ (pc = "idle" /\ timers.dyn > 0)

\* StepAgent has just been taken.
StepRan == pc = "returned" /\ op.name = "_step_agent"

\* Tk runs a pending `after` job once the event loop is idle again, however
\* many other callbacks come in between, and a callback that was entered
\* returns: Resume is weakly fair and StepAgent strongly fair. The strong
\* fairness SF_vars(StepAgent) is written out with StepAgent's enabling
\* condition and its effect.
WalkSpec ==
    /\ WalkInit
    /\ [][WalkNext]_vars
    /\ WF_vars(Resume)
    /\ (<>[]~StepDue \/ []<>StepRan)

----------------------------------------------------------------------------
(***************************************************************************)
(* What the properties are stated against: the 4-connected graph of the    *)
(* non-Obstacle cells, defined without the search code.                    *)
(***************************************************************************)
Adjacent4(a, b) ==
    \/ a[1] = b[1] /\ (a[2] = b[2] + 1 \/ b[2] = a[2] + 1)
    \/ a[2] = b[2] /\ (a[1] = b[1] + 1 \/ b[1] = a[1] + 1)

FreeCells == {p \in Coords(rows, cols) : grid[p[1]][p[2]] # OBSTACLE}

\* Breadth-first layers from `frontier` (at distance d): the distance of
\* target, or -1 when it is in no layer.
RECURSIVE BfsDistance(_, _, _, _)
BfsDistance(seen, frontier, d, target) ==
    IF target \in frontier THEN d
    ELSE IF frontier = {} THEN -1
    ELSE LET nxt == {p \in FreeCells \ seen :
                        \E q \in frontier : Adjacent4(p, q)}
         IN  BfsDistance(seen \cup nxt, nxt, d + 1, target)

\* The length of a shortest 4-connected obstacle-free path from start to
\* goal, -1 when there is none.
ShortestSteps == BfsDistance({start}, {start}, 0, goal)

GoalReachable == ShortestSteps >= 0

\* The connected component of the start.
RECURSIVE Closure(_)
Closure(seen) ==
    LET nxt == {p \in FreeCells \ seen : \E q \in seen : Adjacent4(p, q)}
    IN  IF nxt = {} THEN seen ELSE Closure(seen \cup nxt)

StartComponent == Closure({start})

Range(s) == {s[i] : i \in 1..Len(s)}

NoObstacles == \A p \in Coords(rows, cols) : grid[p[1]][p[2]] # OBSTACLE

Returned == pc = "done" /\ ~raised

----------------------------------------------------------------------------
\* C1: when the goal is reachable, astar with the Manhattan heuristic returns
\* a path whose step count (nodes minus 1) is the length of a shortest
\* 4-connected obstacle-free path from start to goal.
ThmC1_AstarShortest ==
    (pc = "done" /\ fn = "astar" /\ heuristic_fn = "manhattan_distance"
        /\ GoalReachable)
    => (path # None /\ Len(path) - 1 = ShortestSteps)

\* astar has returned a path that obstacles force to be longer than the
\* Manhattan distance.
WitC1_Detour ==
    /\ Returned /\ fn = "astar" /\ heuristic_fn = "manhattan_distance"
    /\ path # None
    /\ Len(path) - 1 = ShortestSteps
    /\ ShortestSteps > manhattan_distance(start, goal)

\* C2: on a grid with no Obstacle cell, astar returns a path of Manhattan
\* distance + 1 nodes, for every start and goal.
ThmC2_EmptyGridLength ==
    (pc = "done" /\ fn = "astar" /\ NoObstacles)
    => (path # None
        /\ Len(path) = Abs(start[1] - goal[1]) + Abs(start[2] - goal[2]) + 1)

\* The scenario of the specification: 3x3, (0,0) to (2,2), Manhattan: 5 nodes,
\* and at most 9 visited.
WitC2_ThreeByThree ==
    /\ Returned /\ fn = "astar" /\ heuristic_fn = "manhattan_distance"
    /\ NoObstacles /\ rows = 3 /\ cols = 3
    /\ start = <<0, 0>> /\ goal = <<2, 2>>
    /\ Len(path) = 5
    /\ Len(visited_order) <= 9

\* C3: whenever astar and greedy_bfs both return a path for the same grid,
\* start, goal and heuristic, the A* path has no more steps than the Greedy
\* path.
ThmC3_AstarNoLongerThanGreedy ==
    (pc = "done" /\ fn = "astar" /\ path # None)
    => LET gb == greedy_bfs(grid, start, goal, rows, cols, heuristic_fn)
       IN  gb.path # None => Len(path) - 1 <= Len(gb.path) - 1

\* Both succeed and the Greedy path is strictly longer.
WitC3_GreedyLonger ==
    /\ Returned /\ fn = "astar" /\ path # None
    /\ LET gb == greedy_bfs(grid, start, goal, rows, cols, heuristic_fn)
       IN  gb.path # None /\ Len(path) < Len(gb.path)

\* C4: a path returned by greedy_bfs or astar starts at start, ends at goal,
\* repeats no coordinate and steps between 4-adjacent coordinates.
ThmC4_PathWellFormed ==
    (pc = "done" /\ path # None)
    => /\ path[1] = start
       /\ path[Len(path)] = goal
       /\ \A i, j \in 1..Len(path) : i # j => path[i] # path[j]
       /\ \A i \in 1..(Len(path) - 1) : Adjacent4(path[i], path[i + 1])

\* greedy_bfs has returned a path with a turn in it.
WitC4_BentPath ==
    /\ Returned /\ fn = "greedy_bfs" /\ path # None
    /\ Len(path) >= 4
    /\ path[1][1] # path[Len(path)][1]
    /\ path[1][2] # path[Len(path)][2]

\* C5: a search returns path = None exactly when the goal is not reachable
\* from the start through non-Obstacle cells, and it never raises.
ThmC5_NoPathIffUnreachable ==
    /\ ~raised
    /\ pc = "done" => (path = None <=> ~GoalReachable)

\* A search has returned None with the nodes it visited.
WitC5_NoPath ==
    /\ Returned /\ path = None /\ ~GoalReachable
    /\ Len(visited_order) >= 2
    /\ Len(frontier_snapshots) = Len(visited_order)

\* C6: when the goal is unreachable, visited_order holds every coordinate of
\* the start's connected component.
ThmC6_VisitsWholeComponent ==
    (pc = "done" /\ ~GoalReachable)
    => StartComponent \subseteq Range(visited_order)

\* The goal is walled off and the start's component has several cells.
WitC6_EnclosedGoal ==
    /\ Returned /\ ~GoalReachable
    /\ Cardinality(StartComponent) >= 4
    /\ StartComponent = Range(visited_order)

\* C7: when start = goal, both searches return the path [start], of cost 0,
\* with visited_order = [start].
ThmC7_StartIsGoal ==
    (pc = "done" /\ start = goal)
    => (path = <<start>> /\ Len(path) - 1 = 0 /\ visited_order = <<start>>)

\* The search on the 1x1 grid has returned.
WitC7_OneByOne ==
    /\ Returned /\ rows = 1 /\ cols = 1 /\ start = goal
    /\ path = <<start>>

\* C8: get_neighbors returns, in the order up, down, left, right, exactly the
\* cells that are in bounds and not Obstacle; on a 1x1 grid, none.
InGrid(p) == p \in Coords(rows, cols)

UpDownLeftRight(p) ==
    << <<p[1] - 1, p[2]>>, <<p[1] + 1, p[2]>>,
       <<p[1], p[2] - 1>>, <<p[1], p[2] + 1>> >>

IsOpenCell(p) == InGrid(p) /\ grid[p[1]][p[2]] # OBSTACLE

NeighborsAsStated(p) ==
    get_neighbors(grid, p[1], p[2], rows, cols)
        = SelectSeq(UpDownLeftRight(p), IsOpenCell)

\* Every grid is the grid of a state before the call, where the formula
\* ranges over all its cells; during a call it is about the cell expanded.
ThmC8_Neighbors ==
    /\ pc = "idle" => \A p \in Coords(rows, cols) : NeighborsAsStated(p)
    /\ visited_order # <<>> => NeighborsAsStated(visited_order[Len(visited_order)])
    /\ (rows = 1 /\ cols = 1) => get_neighbors(grid, 0, 0, 1, 1) = <<>>

\* A search has expanded a border cell next to an Obstacle that still has a
\* neighbour.
WitC8_BorderCellByObstacle ==
    /\ pc = "loop" /\ visited_order # <<>>
    /\ LET p == visited_order[Len(visited_order)]
           n == get_neighbors(grid, p[1], p[2], rows, cols)
       IN  /\ n # <<>>
           /\ \E i \in 1..4 : ~InGrid(UpDownLeftRight(p)[i])
           /\ \E i \in 1..4 : /\ InGrid(UpDownLeftRight(p)[i])
                              /\ ~IsOpenCell(UpDownLeftRight(p)[i])
           /\ Range(n) \subseteq Frontier(open_list) \cup Range(visited_order)

\* C9: run_algorithm returns what astar returns exactly when the name is
\* "A*", what greedy_bfs returns for every other name, and never raises.
ResultOf(f) == <<f.path, f.visited_order, f.frontier_snapshots>>

ThmC9_Dispatch ==
    /\ ~raised
    /\ pc # "idle" => (fn = "astar" <=> algo_name = "A*")
    /\ pc = "done" =>
          ResultOf(Frame) =
              IF algo_name = "A*"
              THEN ResultOf(astar(grid, start, goal, rows, cols, heuristic_fn))
              ELSE ResultOf(greedy_bfs(grid, start, goal, rows, cols,
                                       heuristic_fn))

\* An unrecognized name has run greedy_bfs, on an input where astar returns
\* something else.
WitC9_UnknownName ==
    /\ Returned /\ algo_name = ALGO_UNKNOWN /\ fn = "greedy_bfs"
    /\ ResultOf(Frame) #
          ResultOf(astar(grid, start, goal, rows, cols, heuristic_fn))

\* C10: a call leaves every cell of the grid and the start and goal
\* coordinates as they were, whether or not a path is found.
ThmC10_GridUnchanged ==
    [][grid' = grid /\ rows' = rows /\ cols' = cols
       /\ start' = start /\ goal' = goal]_vars

\* Calls have returned with and without a path on a grid that still has its
\* Start and Goal marks.
WitC10_ReturnedOnMarkedGrid ==
    /\ Returned /\ start # goal
    /\ grid[start[1]][start[2]] = START
    /\ grid[goal[1]][goal[2]] = GOAL
    /\ Len(visited_order) >= 3
    /\ path = None

\* C11: manhattan_distance is admissible (never above the shortest
\* obstacle-free step count between two cells, when there is one) and
\* consistent (it differs by at most 1 between 4-adjacent cells).  Before a
\* call, start and goal range over all pairs of non-Obstacle cells of every
\* grid; after a call, every node of the returned path is at most as far from
\* the goal, by the estimate, as the path takes to get there.
ThmC11_ManhattanAdmissibleConsistent ==
    /\ pc = "idle" =>
          /\ GoalReachable => manhattan_distance(start, goal) <= ShortestSteps
          /\ \A a, b \in Coords(rows, cols) :
                Adjacent4(a, b) =>
                    Abs(manhattan_distance(a, goal) - manhattan_distance(b, goal)) <= 1
          /\ manhattan_distance(goal, goal) = 0
    /\ (pc = "done" /\ path # None) =>
          \A i \in 1..Len(path) :
              manhattan_distance(path[i], goal) <= Len(path) - i

\* astar has used the estimate on a grid where it is strictly below the true
\* distance at the start and exact from some later node on.
WitC11_UnderEstimate ==
    /\ Returned /\ fn = "astar" /\ heuristic_fn = "manhattan_distance"
    /\ path # None
    /\ manhattan_distance(path[1], goal) < Len(path) - 1
    /\ \E i \in 2..Len(path) : manhattan_distance(path[i], goal) = Len(path) - i


-----------------------------------------------------------------------------
(***************************************************************************)
(* What the GridManager properties are stated against.                     *)
(***************************************************************************)

\* The cells holding the state v.
Marked(v) == {p \in Coords(rows, cols) : grid[p[1]][p[2]] = v}

\* The call of the method `name` has ended; op and pre are its frame.
Ended(name) == pc = "returned" /\ op.name = name

\* The cells of the grid before the call that held the state v.
MarkedBefore(v) ==
    {p \in Coords(pre.rows, pre.cols) : pre.cells[p[1]][p[2]] = v}

\* C12: in every state reached by create, resize, clear_obstacles,
\* generate_random, toggle_obstacle, move_start, move_goal and
\* try_spawn_dynamic_obstacle on a grid of any positive size, exactly one cell
\* holds Start and exactly one holds Goal, and they are the cells at the
\* stored start and goal coordinates.
CexC12_OneStartOneGoal ==
    /\ Marked(START) = {start}
    /\ Marked(GOAL) = {goal}

\* C13: create(rows, cols) yields a grid with Start at (0,0), Goal at
\* (rows-1, cols-1) and every other cell Empty; resize(rows, cols) from any
\* prior state yields exactly the grid create(rows, cols) yields.
CexC13_CreateAndResize ==
    /\ (Ended("__init__") \/ Ended("resize")) =>
          /\ rows = op.args[1] /\ cols = op.args[2]
          /\ start = <<0, 0>> /\ goal = <<rows - 1, cols - 1>>
          /\ grid[0][0] = START
          /\ grid[rows - 1][cols - 1] = GOAL
          /\ \A p \in Coords(rows, cols) \ {start, goal} :
                grid[p[1]][p[2]] = EMPTY
    /\ Ended("resize") => self = GridManager(op.args[1], op.args[2])

\* C14: clear_obstacles turns every Obstacle cell into Empty and leaves the
\* Start and Goal cells, their coordinates and the dimensions unchanged;
\* calling it again yields the same grid.
ThmC14_ClearObstacles ==
    Ended("clear_obstacles") =>
        /\ ~raised
        /\ rows = pre.rows /\ cols = pre.cols
        /\ start = pre.start /\ goal = pre.goal
        /\ \A p \in Coords(rows, cols) :
              grid[p[1]][p[2]] =
                  IF pre.cells[p[1]][p[2]] = OBSTACLE
                  THEN EMPTY
                  ELSE pre.cells[p[1]][p[2]]
        /\ Marked(START) = MarkedBefore(START)
        /\ Marked(GOAL) = MarkedBefore(GOAL)
        /\ clear_obstacles(self) = self

\* clear_obstacles has removed two obstacles from a grid whose start and goal
\* had both been moved.
WitC14_ClearedTwo ==
    /\ Ended("clear_obstacles")
    /\ Cardinality(MarkedBefore(OBSTACLE)) = 2
    /\ start # <<0, 0>>
    /\ goal # <<rows - 1, cols - 1>>
    /\ grid[start[1]][start[2]] = START

\* C15: from any prior obstacle layout and for every outcome of the draws,
\* generate_random(0) leaves no Obstacle cell and generate_random(100) leaves
\* Obstacle in every cell other than Start and Goal; for every density the
\* Start and Goal cells and coordinates are kept, and the result is the one
\* the same draws give from any other obstacle layout.
ThmC15_GenerateRandom ==
    Ended("generate_random") =>
        /\ ~raised
        /\ op.args[1] = 0 => Marked(OBSTACLE) = {}
        /\ op.args[1] = 100 =>
              \A p \in Coords(rows, cols) \ {start, goal} :
                  grid[p[1]][p[2]] = OBSTACLE
        /\ rows = pre.rows /\ cols = pre.cols
        /\ start = pre.start /\ goal = pre.goal
        /\ Marked(START) = MarkedBefore(START)
        /\ Marked(GOAL) = MarkedBefore(GOAL)
        /\ \A obstacles \in SUBSET (Coords(rows, cols) \ {start, goal}) :
              generate_random(
                  [pre EXCEPT !.cells =
                      GridWith(rows, cols, start, goal, obstacles)],
                  op.args[1], op.random).cells = grid

\* generate_random(50) has cleared one obstacle and set another.
WitC15_RerolledBothWays ==
    /\ Ended("generate_random")
    /\ op.args[1] = 50
    /\ MarkedBefore(OBSTACLE) \ Marked(OBSTACLE) # {}
    /\ Marked(OBSTACLE) \ MarkedBefore(OBSTACLE) # {}

\* The grid differs from the one before the call at most in the cell p.
OnlyChanged(p) ==
    /\ rows = pre.rows /\ cols = pre.cols
    /\ start = pre.start /\ goal = pre.goal
    /\ \A q \in Coords(rows, cols) \ {p} :
          grid[q[1]][q[2]] = pre.cells[q[1]][q[2]]

\* C16: toggle_obstacle(r, c) changes a cell only if (r, c) is in bounds and
\* is neither the Start nor the Goal cell: then it flips Empty to Obstacle or
\* Obstacle to Empty, returns the resulting state and changes no other cell;
\* otherwise it returns the rejection value and the grid is unchanged.
ThmC16_Toggle ==
    Ended("toggle_obstacle") =>
        /\ ~raised
        /\ IF /\ op.args \in Coords(pre.rows, pre.cols)
              /\ op.args # pre.start
              /\ op.args # pre.goal
           THEN /\ pre.cells[op.args[1]][op.args[2]] \in {EMPTY, OBSTACLE}
                /\ grid[op.args[1]][op.args[2]] =
                       IF pre.cells[op.args[1]][op.args[2]] = EMPTY
                       THEN OBSTACLE
                       ELSE EMPTY
                /\ op.ret = <<grid[op.args[1]][op.args[2]]>>
                /\ OnlyChanged(op.args)
           ELSE /\ op.ret = None
                /\ self = pre

\* toggle_obstacle has turned an obstacle back into an empty cell.
WitC16_ToggledBack ==
    /\ Ended("toggle_obstacle")
    /\ op.ret = <<EMPTY>>
    /\ op.args \in MarkedBefore(OBSTACLE)

EditMethods == {"toggle_obstacle", "place_obstacle", "move_start", "move_goal"}

InvalidAttempt ==
    \/ op.args \notin Coords(pre.rows, pre.cols)
    \/ op.name \in {"toggle_obstacle", "place_obstacle"}
          /\ op.args \in {pre.start, pre.goal}
    \/ op.name = "move_start" /\ op.args = pre.goal
    \/ op.name = "move_goal" /\ op.args = pre.start

\* C18: every invalid edit attempt (toggle_obstacle, place_obstacle,
\* move_start or move_goal on a protected cell or on a coordinate out of
\* bounds, negative indices included) is rejected with the sentinel return
\* value, never raises, and leaves every cell and the start and goal
\* coordinates unchanged.
CexC18_InvalidEditsRejected ==
    (pc = "returned" /\ op.name \in EditMethods /\ InvalidAttempt) =>
        /\ ~raised
        /\ self = pre
        /\ IF op.name = "place_obstacle" THEN op.ret = FALSE ELSE op.ret = None

\* What was asked of try_spawn_dynamic_obstacle, and what it reported.
spawn_agent == op.args[1]

remaining_path == op.args[2]

spawned == op.ret[1]

blocked == op.ret[2]

\* The cells try_spawn_dynamic_obstacle may take, as the grid was at its entry.
Eligible ==
    {p \in Coords(pre.rows, pre.cols) :
        /\ p # pre.start
        /\ p # pre.goal
        /\ p # spawn_agent
        /\ pre.cells[p[1]][p[2]] # OBSTACLE}

\* C19: whenever try_spawn_dynamic_obstacle reports a spawned coordinate, that
\* coordinate was, before the call, not the Start, not the Goal, not agent_pos
\* and not an Obstacle; after the call it is an Obstacle and no other cell has
\* changed; and the blocked flag is true iff the coordinate is in the
\* remaining path.
ThmC19_SpawnedCell ==
    (Ended("try_spawn_dynamic_obstacle") /\ spawned # None) =>
        /\ ~raised
        /\ spawned \in Eligible
        /\ grid[spawned[1]][spawned[2]] = OBSTACLE
        /\ OnlyChanged(spawned)
        /\ blocked <=> spawned \in Range(remaining_path)

\* After rejected picks, an obstacle was spawned on the second cell of the
\* remaining path, with the agent away from the start.
WitC19_BlockedAfterRetries ==
    /\ Ended("try_spawn_dynamic_obstacle")
    /\ spawned # None
    /\ blocked
    /\ op.picks > 2
    /\ Len(remaining_path) = 2 /\ remaining_path[2] = spawned
    /\ spawn_agent # pre.start

\* C20: when try_spawn_dynamic_obstacle reports nothing spawned, because the
\* draw exceeded spawn_prob or because all 20 picks were rejected (always so
\* when no cell is eligible), it reports not-blocked, raises no error and
\* leaves the grid unchanged; it never makes more than 20 picks.
ThmC20_NothingSpawned ==
    op.name = "try_spawn_dynamic_obstacle" =>
        /\ op.picks <= 20
        /\ pc = "returned" =>
              /\ ~raised
              /\ spawned = None =>
                    /\ ~blocked
                    /\ self = pre
                    /\ \/ op.picks = 0 /\ op.random[1] > op.args[3]
                       \/ op.picks = 20 /\ op.random[1] <= op.args[3]
              /\ (Eligible = {} \/ op.random[1] > op.args[3]) => spawned = None

\* All 20 picks were rejected although a cell was eligible.
WitC20_ExhaustedWithRoom ==
    /\ Ended("try_spawn_dynamic_obstacle")
    /\ spawned = None
    /\ op.picks = 20
    /\ Eligible # {}


-----------------------------------------------------------------------------
(***************************************************************************)
(* The controller's run: properties of AppSpec.  After a callback, op is   *)
(* the call and what it reported, pre the controller as the call found it. *)
(***************************************************************************)
\* The paths a search from the cell `from` to gm's goal can return, over the
\* algorithm and heuristic the dropdowns can hold.
Searches(gm, from) ==
    {RunAlgorithm(algo, gm.cells, from, gm.goal, gm.rows, gm.cols,
                  get_heuristic(heur)).path :
        algo \in AlgoChoices, heur \in HeuristicChoices}

\* A _step_agent call that went past its two early returns: it moved.
Moved ==
    /\ Ended("_step_agent")
    /\ op.ret.status \in {"Walking", "Replanned", "Trapped"}

\* The steps the event loop can run next, in the state as it is.
StepsFromHere ==
    UNION {_step_agent([this EXCEPT !.timers.dyn = 0, !.dyn_job = "dead"],
                       spawn_prob, draw, algo, heur) :
              spawn_prob \in Percents, draw \in UniformDraws,
              algo \in AlgoChoices, heur \in HeuristicChoices}

NoAgentRunState ==
    current_path = <<>> /\ agent_path_idx = 0 /\ agent_pos = None

NothingPending ==
    /\ timers = [anim |-> 0, dyn |-> 0]
    /\ _anim_job # "live"
    /\ _dyn_job # "live"

\* C21: when the animation of a successful search ends with dynamic mode
\* on, the controller is about to take the first step of the walk with
\* current_path the path the search found from the start, index 0 and the
\* agent on the path's first cell, the start; with dynamic mode off it is
\* Idle and holds no agent run state.
ThmC21_EnterWalk ==
    (pc # "idle" /\ op.name = "_on_search_done") =>
        IF op.random[1]
        THEN /\ pc = "_step_agent"
             /\ is_running
             /\ current_path = op.args[1]
             /\ current_path \in Searches(self, start) \ {None}
             /\ agent_path_idx = 0
             /\ agent_pos = current_path[1]
             /\ agent_pos = start
        ELSE /\ pc = "returned"
             /\ ~is_running
             /\ NoAgentRunState
             /\ NothingPending

WitC21_WalkEntered ==
    /\ pc = "_step_agent"
    /\ op.name = "_on_search_done"
    /\ Len(current_path) >= 3
    /\ agent_pos = start

\* C22: a step that finds the index at or past the end of the path reports
\* GoalReached and stops the run, moving no agent and spawning nothing; and
\* whenever GoalReached is reported the agent is on the goal.
ThmC22_GoalReached ==
    Ended("_step_agent") =>
        /\ (pre.is_running /\ pre.agent_path_idx >= Len(pre.current_path)) =>
              /\ op.ret.status = "GoalReached"
              /\ op.ret.obs_pos = None
              /\ ~is_running
              /\ agent_pos = pre.agent_pos
              /\ agent_path_idx = pre.agent_path_idx
              /\ current_path = pre.current_path
              /\ self = pre.grid
              /\ NothingPending
        /\ op.ret.status = "GoalReached" => agent_pos = goal

WitC22_ArrivedAfterWalk ==
    /\ Ended("_step_agent")
    /\ op.ret.status = "GoalReached"
    /\ Len(current_path) >= 3
    /\ Marked(OBSTACLE) # {}

\* The cells that are Obstacle now and were not when the call began.
SpawnedCells ==
    {p \in Coords(rows, cols) :
        /\ get_cell(self, p) = OBSTACLE
        /\ get_cell(pre.grid, p) # OBSTACLE}

\* The path the step had still to walk once it had moved: path[index:],
\* the index taken after the increment.
SuffixAfterMove ==
    SubSeq(pre.current_path, pre.agent_path_idx + 2, Len(pre.current_path))

SpawnedOnSuffix ==
    \E p \in SpawnedCells : \E i \in DOMAIN SuffixAfterMove :
        SuffixAfterMove[i] = p

\* C23: a step that moves runs the search again exactly when the obstacle
\* it spawned lies on the path still to walk; otherwise the path is kept
\* and only the index and the agent's cell advance.
ThmC23_ReplanIffBlocked ==
    Moved =>
        /\ SpawnedCells = (IF op.ret.obs_pos = None THEN {} ELSE {op.ret.obs_pos})
        /\ op.ret.status \in {"Replanned", "Trapped"} <=> SpawnedOnSuffix
        /\ op.ret.blocked <=> SpawnedOnSuffix
        /\ ~SpawnedOnSuffix =>
              /\ op.ret.status = "Walking"
              /\ current_path = pre.current_path
              /\ agent_path_idx = pre.agent_path_idx + 1
              /\ agent_pos = pre.current_path[pre.agent_path_idx + 1]
              /\ is_running

WitC23_SpawnedBesideThePath ==
    /\ Moved
    /\ op.ret.status = "Walking"
    /\ SpawnedCells # {}
    /\ Len(SuffixAfterMove) >= 1

\* C24: a successful re-plan ran the search from the cell the agent stands
\* on to the goal, which did not move; its path is the current path, starts
\* on the agent's cell, and the index is 1, so that the next step moves the
\* agent to the second cell of the new path.
ThmC24_Replanned ==
    (Ended("_step_agent") /\ op.ret.status = "Replanned") =>
        /\ goal = pre.grid.goal
        /\ agent_pos = pre.current_path[pre.agent_path_idx + 1]
        /\ current_path \in Searches(self, agent_pos) \ {None}
        /\ current_path[1] = agent_pos
        /\ current_path[Len(current_path)] = goal
        /\ agent_path_idx = 1
        /\ is_running
        /\ Len(current_path) >= 2
        /\ \A s \in StepsFromHere : s.app.agent_pos = current_path[2]

WitC24_ReplannedOnTheWay ==
    /\ Ended("_step_agent")
    /\ op.ret.status = "Replanned"
    /\ agent_pos # start
    /\ current_path # SubSeq(pre.current_path, pre.agent_path_idx + 1,
                             Len(pre.current_path))

\* start_search on the controller as it is, and on one that holds the same
\* grid and has never run.
FreshController ==
    [this EXCEPT !.current_path = <<>>, !.agent_pos = None,
                 !.agent_path_idx = 0]

\* C25: a re-plan that finds no path from the agent's cell ends the run as
\* Trapped: the controller is inactive, no step is pending and a step would
\* move nothing; and start_search on a controller that is not running, a
\* trapped one included, is accepted and does what it does on a fresh one.
ThmC25_Trapped ==
    /\ (Ended("_step_agent") /\ op.ret.status = "Trapped") =>
          /\ Searches(self, agent_pos) = {None}
          /\ ~is_running
          /\ NothingPending
          /\ \A s \in StepsFromHere :
                s.ret.status = "ignored" /\ s.app.agent_pos = agent_pos
          /\ \A algo \in AlgoChoices, heur \in HeuristicChoices :
                /\ start_search(this, algo, heur).ret # "ignored"
                /\ start_search(this, algo, heur)
                       = start_search(FreshController, algo, heur)
    /\ (Ended("start_search") /\ ~pre.is_running) =>
          /\ op.ret \in {"NoPath", "Animating"}
          /\ NoAgentRunState
          /\ self = pre.grid
          /\ op.ret = "Animating" <=> Searches(self, start) # {None}
          /\ op.ret = "Animating" =>
                is_running /\ path \in Searches(self, start) /\ timers.anim = 1
          /\ op.ret = "NoPath" => ~is_running /\ NothingPending

\* A new search is running on the grid a trapped walk left.
WitC25_SearchAfterTrapped ==
    /\ Ended("start_search")
    /\ op.ret = "Animating"
    /\ pre.current_path # <<>>
    /\ pre.agent_pos # pre.grid.goal

\* start_search and the callbacks that edit the grid for the user.
UserCallbacks ==
    {"start_search", "apply_grid_size", "generate_random_map",
     "clear_obstacles", "_on_canvas_click"}

\* C26: while a run is active, start_search, apply_grid_size,
\* generate_random_map, clear_obstacles and a canvas click change neither
\* the grid nor the run state; a call that finds a run active and changes
\* the grid is a step, and what it changes is the one cell it spawned an
\* obstacle on.
ThmC26_GuardedWhileRunning ==
    (pc # "idle" /\ pre # None /\ pre.is_running) =>
        /\ op.name \in UserCallbacks => op.ret = "ignored" /\ this = pre
        /\ self # pre.grid =>
              /\ op.name = "_step_agent"
              /\ op.ret.obs_pos # None
              /\ get_cell(pre.grid, op.ret.obs_pos) = EMPTY
              /\ self = Store(pre.grid, op.ret.obs_pos, OBSTACLE)

WitC26_ResizeDuringWalk ==
    /\ Ended("apply_grid_size")
    /\ pre.is_running
    /\ pre.agent_pos # None
    /\ op.args # <<rows, cols>>

\* C27: stop_reset, whenever it is called, leaves the controller Idle with
\* no agent run state and every cell, the start and the goal as they were;
\* no callback is left pending, and a step run now would move no agent and
\* spawn nothing.
ThmC27_StopReset ==
    Ended("stop_reset") =>
        /\ ~is_running
        /\ NoAgentRunState
        /\ self = pre.grid
        /\ NothingPending
        /\ _anim_job = "none" /\ _dyn_job = "none"
        /\ \A s \in StepsFromHere :
              s.ret.status = "ignored" /\ s.app.grid = self
                  /\ s.app.agent_pos = None

\* Stopped between two steps of a walk, obstacles spawned and some of the
\* path still to walk.
WitC27_StoppedMidWalk ==
    /\ Ended("stop_reset")
    /\ pre.is_running
    /\ pre.agent_path_idx >= 2
    /\ pre.agent_path_idx < Len(pre.current_path)
    /\ pre.timers.dyn = 1
    /\ Marked(OBSTACLE) # {}

\* C28: after stop, after the goal is reached and after a new search is
\* invoked, the current path is empty, the index 0 and there is no agent
\* coordinate.
CexC28_RunStateReset ==
    (\/ Ended("stop_reset")
     \/ Ended("_step_agent") /\ op.ret.status = "GoalReached"
     \/ Ended("start_search") /\ op.ret # "ignored") => NoAgentRunState

\* C29: between two steps of a walk no cell of current_path[index:] and not
\* the agent's cell is an Obstacle; a step that moves puts the agent on a
\* cell that is not an Obstacle, before and after its spawn.
ThmC29_PathStaysFree ==
    /\ (is_running /\ current_path # <<>>) =>
          /\ \A i \in (agent_path_idx + 1)..Len(current_path) :
                get_cell(self, current_path[i]) # OBSTACLE
          /\ agent_pos # None => get_cell(self, agent_pos) # OBSTACLE
    /\ Moved =>
          /\ get_cell(pre.grid, agent_pos) # OBSTACLE
          /\ get_cell(self, agent_pos) # OBSTACLE

WitC29_WalkingPastObstacles ==
    /\ Moved
    /\ op.ret.status = "Walking"
    /\ op.ret.obs_pos # None
    /\ agent_path_idx >= 2
    /\ agent_path_idx < Len(current_path)
    /\ Cardinality(Marked(OBSTACLE)) >= 2

\* C30 as stated: a step that changes the agent's coordinate moves it to a
\* 4-adjacent cell, and the only step that does not change it is the first
\* step of the walk.
CexC30_OnlyFirstStepStays ==
    (Ended("_step_agent") /\ op.ret.status # "ignored") =>
        /\ agent_pos # pre.agent_pos => Adjacent4(pre.agent_pos, agent_pos)
        /\ agent_pos = pre.agent_pos =>
              pre.agent_path_idx = 0 /\ agent_pos = start

\* C30: a step that changes the agent's coordinate moves it to a 4-adjacent
\* cell, the first step after a re-plan included; the steps that do not
\* change it are the first step of the walk, which places the agent on the
\* start, and the step that finds the path walked and reports GoalReached.
ThmC30_StepsAreAdjacent ==
    (Ended("_step_agent") /\ op.ret.status # "ignored") =>
        /\ agent_pos # pre.agent_pos => Adjacent4(pre.agent_pos, agent_pos)
        /\ agent_pos = pre.agent_pos <=>
              \/ pre.agent_path_idx = 0 /\ agent_pos = start
              \/ op.ret.status = "GoalReached"
        /\ (pre.agent_path_idx = 1 /\ agent_pos # pre.agent_pos) =>
              /\ pre.current_path[1] = pre.agent_pos
              /\ agent_pos = pre.current_path[2]

\* The first step after a re-plan.
WitC30_MovedAfterReplan ==
    /\ Moved
    /\ pre.agent_path_idx = 1
    /\ pre.agent_pos # start
    /\ Adjacent4(pre.agent_pos, agent_pos)


\* A dynamic walk is under way.
Walking == is_running /\ current_path # <<>>

WalkEnded ==
    /\ Ended("_step_agent")
    /\ op.ret.status \in {"GoalReached", "Trapped"}

\* C31: when the pending steps keep being run and the run is not stopped,
\* every dynamic walk ends in GoalReached or Trapped, whatever the spawn
\* probabilities and the random draws.
ThmC31_WalkEnds == Walking ~> WalkEnded

\* A walk has ended after a re-plan, with obstacles spawned beside the path
\* as well.
WitC31_EndedAfterReplans ==
    /\ WalkEnded
    /\ op.ret.status = "GoalReached"
    /\ current_path[1] # start
    /\ Cardinality(Marked(OBSTACLE)) >= 2

----------------------------------------------------------------------------
(***************************************************************************)
(* Termination of one search call.  A pop is one iteration of              *)
(* `while open_list`.  In greedy_bfs every pop appends to visited_order.   *)
(* In astar a pop removes one heap entry, and every push records a         *)
(* strictly smaller cost for its coordinate (an undiscovered coordinate    *)
(* counting as rows * cols), so the number of heap entries plus twice the  *)
(* sum of the costs goes down with every pop.                              *)
(***************************************************************************)
CostSoFar(p) == IF p \in DOMAIN g_score THEN g_score[p] ELSE rows * cols

\* The sum of the costs of the cells from the i-th on, in row-major order.
RECURSIVE SumOfCosts(_)
SumOfCosts(i) ==
    IF i >= rows * cols THEN 0
    ELSE CostSoFar(<<i \div cols, i % cols>>) + SumOfCosts(i + 1)

PopsLeft == Len(open_list) + 2 * SumOfCosts(0)

PopsAtMost == 1 + 2 * (rows * cols) * (rows * cols)

\* C32: greedy_bfs and astar terminate on every grid, after a number of pops
\* bounded by the grid size.  Every iteration of either loop is followed by
\* the return or by a state with the loop's variant strictly smaller: in
\* greedy_bfs the pops so far are len(visited_order), which grows by one
\* and never exceeds rows * cols; in astar PopsLeft, which starts at no
\* more than PopsAtMost, falls and stays non-negative; and an empty heap
\* returns at once.
ThmC32_SearchTerminates ==
    [][pc = "loop" =>
         /\ pc' \in {"loop", "done"}
         /\ open_list = <<>> => pc' = "done"
         /\ fn = "greedy_bfs" /\ open_list # <<>> =>
               /\ Len(visited_order') = Len(visited_order) + 1
               /\ Len(visited_order') <= rows * cols
         /\ fn = "astar" /\ open_list # <<>> =>
               /\ PopsLeft <= PopsAtMost
               /\ PopsLeft' < PopsLeft
               /\ PopsLeft' >= 0]_vars

\* greedy_bfs returned a path after popping every cell of a grid of four
\* cells or more: the bound rows * cols is met.
WitC32_PoppedEveryCell ==
    /\ pc = "done" /\ fn = "greedy_bfs" /\ path # None
    /\ rows * cols >= 4
    /\ Len(visited_order) = rows * cols

----------------------------------------------------------------------------
NoRepeats(s) == \A i, j \in 1..Len(s) : s[i] = s[j] => i = j

\* C33: in greedy_bfs and in astar no coordinate is expanded twice:
\* visited_order never repeats a coordinate, every coordinate in it is a
\* cell of the grid reachable from the start, and its length is at most the
\* number of cells that are not Obstacle (at most 9 on a 3x3 grid).
ThmC33_ExpandedOnce ==
    pc \in {"loop", "done"} =>
        /\ NoRepeats(visited_order)
        /\ \A p \in Range(visited_order) : InGrid(p)
        /\ Range(visited_order) \subseteq StartComponent
        /\ Len(visited_order) <= Cardinality(FreeCells)
        /\ (rows = 3 /\ cols = 3) => Len(visited_order) <= 9

\* A search on a 3x3 grid with an obstacle that expanded every other cell.
WitC33_AllFreeCellsOnce ==
    /\ pc = "done" /\ rows = 3 /\ cols = 3
    /\ Marked(OBSTACLE) # {}
    /\ Len(visited_order) = Cardinality(FreeCells)

----------------------------------------------------------------------------
InAstar == fn = "astar" /\ pc \in {"loop", "done"}

EntriesFor(heap, p) == Cardinality({i \in 1..Len(heap) : heap[i][3] = p})

\* The position of p in visited_order, 0 when p was not expanded.
ExpandedAt(p) ==
    IF p \in Range(visited_order)
    THEN CHOOSE i \in 1..Len(visited_order) : visited_order[i] = p
    ELSE 0

\* C34: during one astar search the g-score recorded for a coordinate never
\* grows: every iteration keeps each recorded coordinate, and either lowers
\* its g-score or leaves the g-score, the parent in came_from and the
\* number of its heap entries as they were (nothing is recorded for it
\* unless the cost is strictly smaller); the start's g-score is 0 from the
\* prologue to the return.
ThmC34_GScoreMonotone ==
    [][/\ InAstar' => start \in DOMAIN g_score' /\ g_score'[start] = 0
       /\ (fn = "astar" /\ pc = "loop") =>
             \A p \in DOMAIN g_score :
                 /\ p \in DOMAIN g_score'
                 /\ g_score'[p] <= g_score[p]
                 /\ g_score'[p] = g_score[p] =>
                       /\ came_from'[p] = came_from[p]
                       /\ EntriesFor(open_list', p) <= EntriesFor(open_list, p)
      ]_vars

\* A coordinate p still on the heap was discovered from one neighbour and
\* met again when a neighbour q expanded later offered a cost that is not
\* smaller: its g-score and parent are the first ones.
WitC34_KeptAgainstLaterNeighbour ==
    /\ InAstar
    /\ \E p \in DOMAIN g_score \ closed_set : \E q \in closed_set :
          /\ p # start
          /\ Adjacent4(p, q)
          /\ came_from[p] # q
          /\ ExpandedAt(q) > ExpandedAt(came_from[p])
          /\ g_score[q] + 1 >= g_score[p]
          /\ g_score[p] = g_score[came_from[p]] + 1

----------------------------------------------------------------------------
Last(s) == s[Len(s)]

\* An iteration that expanded a coordinate other than the goal.
Expanded ==
    /\ pc = "loop" /\ pc' = "loop"
    /\ Len(visited_order') = Len(visited_order) + 1

\* C35: in both algorithms a frontier snapshot is appended by each iteration
\* that expands a coordinate other than the goal, and by no other step; it
\* is taken after the neighbours of the popped coordinate were processed
\* (it holds each walkable neighbour not yet expanded), and it is exactly
\* the contents of the priority structure, which are exactly the
\* coordinates discovered so far minus those in visited_order.
ThmC35_FrontierSnapshot ==
    [][IF Expanded
       THEN LET current == Last(visited_order')
                nbrs == get_neighbors(grid, current[1], current[2], rows, cols)
            IN  /\ frontier_snapshots' =
                      Append(frontier_snapshots,
                             DOMAIN came_from' \ Range(visited_order'))
                /\ Last(frontier_snapshots') = Frontier(open_list')
                /\ \A i \in 1..Len(nbrs) :
                      nbrs[i] \notin Range(visited_order')
                      => nbrs[i] \in Last(frontier_snapshots')
       ELSE pc = "loop" => frontier_snapshots' = frontier_snapshots]_vars

\* The latest snapshot of an astar search holds a neighbour that the last
\* expansion discovered and a coordinate discovered earlier.
WitC35_OldAndNewInFrontier ==
    /\ pc = "loop" /\ fn = "astar" /\ Len(frontier_snapshots) >= 2
    /\ \E p, q \in Last(frontier_snapshots) :
          /\ came_from[p] = Last(visited_order)
          /\ came_from[q] # Last(visited_order)
          /\ q \in frontier_snapshots[Len(frontier_snapshots) - 1]

----------------------------------------------------------------------------
AstarManhattan == fn = "astar" /\ heuristic_fn = "manhattan_distance"

\* C36: with the Manhattan heuristic astar never records a cheaper g-score
\* for a coordinate it has discovered.  In every iteration the popped
\* coordinate is not in the closed set (the skip never fires), no recorded
\* g-score changes, an entry is pushed only for a coordinate that had no
\* g-score yet (each coordinate is pushed at most once), and the heap holds
\* at most one entry for a coordinate, before and after.
ThmC36_ManhattanPushesOnce ==
    [][(AstarManhattan /\ pc = "loop" /\ open_list # <<>>) =>
         /\ Head(open_list)[3] \notin closed_set
         /\ \A p \in DOMAIN g_score :
               /\ p \in DOMAIN g_score' /\ g_score'[p] = g_score[p]
               /\ EntriesFor(open_list', p) <= EntriesFor(open_list, p)
         /\ \A p \in Coords(rows, cols) :
               /\ EntriesFor(open_list, p) <= 1
               /\ EntriesFor(open_list', p) <= 1]_vars

\* A Manhattan search met a coordinate that is still on the heap again, from
\* a neighbour expanded later at exactly the recorded cost, and kept it.
WitC36_TieNotRecorded ==
    /\ AstarManhattan /\ pc = "loop"
    /\ \E p \in Frontier(open_list) : \E q \in closed_set :
          /\ Adjacent4(p, q)
          /\ came_from[p] # q
          /\ ExpandedAt(q) > ExpandedAt(came_from[p])
          /\ g_score[q] + 1 = g_score[p]
          /\ EntriesFor(open_list, p) = 1

----------------------------------------------------------------------------
\* The searches whose every iteration is repeated in the 24 direction
\* orders: the calls of Spec on the smaller grids.
OrderMaxRows == 3
OrderMaxCols == 3
OrderMaxCells == 9
OrderMaxObstacles == 1

OrderInit ==
    /\ Init
    /\ rows <= OrderMaxRows
    /\ cols <= OrderMaxCols
    /\ rows * cols <= OrderMaxCells
    /\ Cardinality(Marked(OBSTACLE)) <= OrderMaxObstacles

OrderSpec == OrderInit /\ [][Next]_vars

\* The orders in which get_neighbors could list its four directions.
DirectionOrders ==
    {d \in [1..Len(directions) -> 1..Len(directions)] :
        \A i, j \in 1..Len(directions) : d[i] = d[j] => i = j}

\* get_neighbors with the directions listed in the order d, from the i-th.
RECURSIVE NeighborsIn(_, _, _, _, _, _, _)
NeighborsIn(d, i, g, row, col, r, c) ==
    IF i > Len(directions) THEN <<>>
    ELSE LET nr == row + directions[d[i]][1]
             nc == col + directions[d[i]][2]
             rest == NeighborsIn(d, i + 1, g, row, col, r, c)
         IN  IF Walkable(g, nr, nc, r, c) THEN <<<<nr, nc>>>> \o rest ELSE rest

\* The locals after the pop of an iteration that expands, and the locals
\* after its loop over the neighbours taken in the order d.
Popped ==
    LET current == EntryNode(Head(open_list))
    IN  [Frame EXCEPT !.open_list = Tail(@),
                      !.closed_set = IF fn = "astar" THEN @ \cup {current} ELSE @,
                      !.visited_order = Append(@, current)]

NeighboursDoneIn(d) ==
    LET current == EntryNode(Head(open_list))
        nbrs == NeighborsIn(d, 1, grid, current[1], current[2], rows, cols)
    IN  IF fn = "astar"
        THEN astar_expand(Popped, nbrs, 1, current, goal, heuristic_fn)
        ELSE greedy_expand(Popped, nbrs, 1, current, goal, heuristic_fn)

\* x is popped before y: smaller priority, then smaller g (astar's entries
\* only), then smaller (row, col).
PoppedBefore(x, y) ==
    \/ NumLess(x[1], y[1])
    \/ /\ x[1] = y[1] /\ Len(x) = 3 /\ x[2] < y[2]
    \/ /\ x[1] = y[1] /\ (Len(x) = 3 => x[2] = y[2])
       /\ \/ EntryNode(x)[1] < EntryNode(y)[1]
          \/ /\ EntryNode(x)[1] = EntryNode(y)[1]
             /\ EntryNode(x)[2] < EntryNode(y)[2]

\* C37: the entry popped is the one of least priority, among those the one
\* of least g (astar), among those the one of least (row, col), whatever the
\* order of discovery; and an iteration leaves the same heap, came_from and
\* g_score for every order in which get_neighbors could list the four
\* directions, so the path and visited_order returned do not depend on it.
ThmC37_DirectionOrderIrrelevant ==
    [][(pc = "loop" /\ open_list # <<>>) =>
         /\ \A i \in 2..Len(open_list) :
               PoppedBefore(Head(open_list), open_list[i])
         /\ Len(visited_order') = Len(visited_order) + 1 =>
               Last(visited_order') = EntryNode(Head(open_list))
         /\ Expanded =>
               \A d \in DirectionOrders :
                   LET e == NeighboursDoneIn(d)
                   IN  /\ open_list' = e.open_list
                       /\ came_from' = e.came_from
                       /\ g_score' = e.g_score
                       /\ visited_order' = e.visited_order
      ]_vars

\* Two entries of equal priority and equal g were discovered from the same
\* coordinate, the one below it (listed second by get_neighbors) before the
\* one to its left (listed third), and the one to the left is ahead.
WitC37_TieAgainstDiscoveryOrder ==
    /\ pc = "loop" /\ fn = "astar"
    /\ \E i, j \in 1..Len(open_list) :
          LET x == open_list[i]
              y == open_list[j]
          IN  /\ i < j
              /\ x[1] = y[1] /\ x[2] = y[2]
              /\ came_from[x[3]] = came_from[y[3]]
              /\ x[3] = <<came_from[x[3]][1], came_from[x[3]][2] - 1>>
              /\ y[3] = <<came_from[y[3]][1] + 1, came_from[y[3]][2]>>

----------------------------------------------------------------------------
\* C38: with spawn_prob = 0 try_spawn_dynamic_obstacle places no obstacle,
\* whatever random.random() returns in [0, 1): the call returns
\* (None, False) and leaves the grid as it was.
CexC38_ZeroNeverSpawns ==
    (Ended("try_spawn_dynamic_obstacle") /\ op.args[3] = 0) =>
        /\ spawned = None
        /\ ~blocked
        /\ self = pre

----------------------------------------------------------------------------
\* The animation and step callbacks Tk holds for later.
Pending == timers.anim + timers.dyn

\* C39: under every interleaving of timer callbacks and user actions at
\* most one animation or step callback is pending, and none is pending
\* while the controller is not running (after a stop, GoalReached, Trapped
\* or a search that found no path); so every callback Tk runs finds the
\* controller running, and a _step_agent call never returns at its
\* is_running check.
ThmC39_OneCallbackPending ==
    /\ Pending <= 1
    /\ ~is_running => NothingPending
    /\ (pc # "idle" /\ op.name \in {"_step_agent", "_run_search_step"}) =>
          /\ pre.is_running
          /\ pre.timers.anim + pre.timers.dyn <= 1
    /\ (pc # "idle" /\ op.name = "_step_agent") => op.ret.status # "ignored"

\* stop_reset was pressed during the animation of a search started after an
\* earlier walk had ended: the one pending callback was cancelled.
WitC39_StoppedSecondAnimation ==
    /\ Ended("stop_reset")
    /\ pre.timers = [anim |-> 1, dyn |-> 0]
    /\ pre.dyn_job = "dead"
    /\ Pending = 0

====
